---- MODULE Spec2Model ----
(***************************************************************************)
(* Verification model of the consensus-adjacent state core of stellar-core *)
(* (MonsieurNicolas/stellar-core):                                         *)
(*   - the nested ledger state (LedgerState over LedgerStateRoot), from    *)
(*     src/ledger/LedgerState.cpp, LedgerStateEntry.cpp and                *)
(*     LedgerStateHeader.cpp;                                              *)
(*   - the pending-envelopes pipeline declared in                          *)
(*     src/herder/PendingEnvelopes.h.                                      *)
(***************************************************************************)
EXTENDS Integers, Sequences, FiniteSets, TLC

\* ------------------------------------------------------------------ bounds
\* LedgerState objects alive at a time: the depth of the stack over the root
MaxScopes == 2
\* ledger sequence numbers a header can hold: 1..MaxSeq
MaxSeq == 2
\* payload values an entry can hold: 1..MaxVal
MaxVal == 2
\* calls made on the ledger state in one behaviour
MaxCalls == 5

\* --------------------------------------------------------------- constants
\* the LedgerStateRoot, as the parent at the bottom of the stack
Root == 0
\* a null mChild pointer
NULL == -1
\* batch of offers the root loads at a time
BATCH_SIZE == 5

Scopes == 1..MaxScopes
Parents == 0..MaxScopes
Seqs == 1..MaxSeq
Vals == 1..MaxVal

\* ledger keys in LedgerKey order (ACCOUNT sorts before OFFER)
KeySeq == <<"acct", "offer">>
Keys == {KeySeq[i] : i \in 1..Len(KeySeq)}
KeyType(k) == IF k = "acct" THEN "ACCOUNT" ELSE "OFFER"
KeyIndex(k) == CHOOSE i \in 1..Len(KeySeq) : KeySeq[i] = k
NoKey == "-"

\* values of std::shared_ptr<LedgerEntry>: not in the map, nullptr, an entry
Absent == [t |-> "absent", val |-> 0, lm |-> 0]
None == [t |-> "none", val |-> 0, lm |-> 0]
Entry(v, l) == [t |-> "entry", val |-> v, lm |-> l]
IsEntry(e) == e.t = "entry"
EmptyMap == [k \in Keys |-> Absent]
NoHandles == [k \in Keys |-> "none"]

\* the best-offers cache line of the one asset pair of the model
NoBestOffers == [present |-> FALSE, bestOffers |-> <<>>, allLoaded |-> FALSE]

VARIABLES
    \* ---- LedgerState objects (LedgerState::Impl fields), by scope id
    life,       \* "none" | "live" (mImpl set) | "ended" (mImpl reset, not yet destroyed)
    mChild,     \* Impl::mChild; mChild[Root] is LedgerStateRoot::Impl::mChild
    mHeader,    \* Impl::mHeader.ledgerSeq; mHeader[Root] is the root's header
    mEntry,     \* Impl::mEntry
    mActive,    \* Impl::mActive: "none" | "entry" | "const" per key
    mActiveHeader,
    mShouldUpdateLastModified,
    mIsSealed,
    \* ---- LedgerStateRoot::Impl
    mEntryCache,
    mBestOffersCache,
    mTransaction,   \* a soci::transaction is open
    db,             \* committed rows of the store
    dbTxn,          \* rows as seen by the session (inside the open transaction)
    \* ---- observation of the calls
    updArg,     \* the shouldUpdateLastModified argument scopes are constructed with
    ends,       \* commitChild/rollbackChild calls completed by the last object of a slot
    nAttached,  \* live LedgerState objects constructed over a parent and not ended
    stray,      \* a parent got a callback from a scope that is not its child
    snap,       \* parent's entries and header when the scope was opened
    nCalls,     \* calls made so far
    last        \* the last call and its outcome

scopeVars == <<life, mChild, mHeader, mEntry, mActive, mActiveHeader,
               mShouldUpdateLastModified, mIsSealed>>
rootVars == <<mEntryCache, mBestOffersCache, mTransaction, db, dbTxn>>
histVars == <<updArg, ends, nAttached, stray, snap>>
lsVars == <<scopeVars, rootVars, histVars, nCalls, last>>

\* a call record: the operation, the scope (or parent) it was made on, its key,
\* whether it returned normally, what it returned; for a rollback the scopes
\* rolled back in order, for a commit the entries the scope handed over
Call(op, s, k, ok, ret) ==
    [op |-> op, s |-> s, k |-> k, ok |-> ok, ret |-> ret, order |-> <<>>,
     args |-> EmptyMap]

\* Impl::mParent: the scope at depth s is constructed over the one at depth
\* s - 1, the scope at depth 1 over the root
mParent(s) == s - 1

\* ------------------------------------------------------------ root reads
\* LedgerStateRoot::Impl::getNewestVersion: the cache line, else the store row
RootGetNewestVersion(k) ==
    IF mEntryCache[k] # Absent THEN mEntryCache[k] ELSE dbTxn[k]

RECURSIVE getNewestVersion(_, _)
\* LedgerState::Impl::getNewestVersion, p a scope or the root
getNewestVersion(p, k) ==
    IF p = Root THEN RootGetNewestVersion(k)
    ELSE IF mEntry[p][k] # Absent THEN mEntry[p][k]
    ELSE getNewestVersion(mParent(p), k)

RECURSIVE reachesRoot(_, _)
\* whether getNewestVersion(p, k) is answered by the root
reachesRoot(p, k) ==
    IF p = Root THEN TRUE
    ELSE IF mEntry[p][k] # Absent THEN FALSE
    ELSE reachesRoot(mParent(p), k)

\* the entry cache after getNewestVersion(p, k) for every k in K
\* (a miss reads the row and puts it in the cache, also when it is null)
cacheAfterReads(p, K) ==
    [k \in Keys |-> IF k \in K /\ reachesRoot(p, k) /\ mEntryCache[k] = Absent
                    THEN dbTxn[k] ELSE mEntryCache[k]]

\* ---------------------------------------------------------------- checks
\* a checkNoChild that lets every call through
checkNoChildSkipped(s) == TRUE

\* LedgerState::Impl::checkNoChild passes
checkNoChild(s) == mChild[s] = NULL

\* LedgerState::Impl::checkNotSealed passes
checkNotSealed(s) == ~mIsSealed[s]

Live(s) == s \in Scopes /\ life[s] = "live"

\* the keys of mEntry, in iteration order
RECURSIVE keysFrom(_, _)
keysFrom(m, i) ==
    IF i > Len(KeySeq) THEN <<>>
    ELSE (IF m[KeySeq[i]] # Absent THEN <<KeySeq[i]>> ELSE <<>>) \o keysFrom(m, i + 1)
entryKeys(m) == keysFrom(m, 1)
keySet(m) == {k \in Keys : m[k] # Absent}

\* ------------------------------------------------------ offer prices
\* a binary64 value keeps this many significant bits
MantissaBits == 53

\* the largest int32, the range of Price.n and Price.d
INT32_MAX == (2^30 - 1) + 2^30

\* the significand is kept as two numbers: its HighBits leading bits and its
\* LowBits trailing bits (one number of MantissaBits bits would pass int32)
HighBits == MantissaBits \div 2
LowBits == MantissaBits - HighBits

\* how many binary digits q has
RECURSIVE bitLength(_)
bitLength(q) == IF q = 0 THEN 0 ELSE 1 + bitLength(q \div 2)

\* long division: the digits acc followed by the next count quotient bits of
\* r/d for 0 <= r < d, as a number, and the remainder left after them (2r is
\* never formed: it may pass int32)
RECURSIVE nextBits(_, _, _, _)
nextBits(r, d, count, acc) ==
    IF count = 0 THEN [q |-> acc, rem |-> r]
    ELSE IF r = 0 THEN [q |-> acc * 2^count, rem |-> 0]
    ELSE IF r >= d - r THEN nextBits(r - (d - r), d, count - 1, acc + acc + 1)
    ELSE nextBits(r + r, d, count - 1, acc + acc)

\* r scaled by the power of two that brings r/d into [1/2, 1), for 0 < r < d
RECURSIVE normalised(_, _)
normalised(r, d) == IF r >= d - r THEN r ELSE normalised(r + r, d)

\* how many doublings normalised(r, d) took
RECURSIVE leadingZeros(_, _)
leadingZeros(r, d) == IF r >= d - r THEN 0 ELSE 1 + leadingZeros(r + r, d)

\* round to nearest, ties to even, of a significand with remainder rem/d
roundNearestEven(exp, hi, lo, rem, d) ==
    IF ~(rem > d - rem \/ (rem = d - rem /\ lo % 2 = 1))
    THEN [exp |-> exp, hi |-> hi, lo |-> lo]
    ELSE IF lo + 1 < 2^LowBits THEN [exp |-> exp, hi |-> hi, lo |-> lo + 1]
    ELSE IF hi + 1 < 2^HighBits THEN [exp |-> exp, hi |-> hi + 1, lo |-> 0]
    ELSE [exp |-> exp + 1, hi |-> 2^(HighBits - 1), lo |-> 0]

\* the leading bits and a remainder, then the trailing bits, rounded
rounded(exp, hi, low, d) == roundNearestEven(exp, hi, low.q, low.rem, d)

\* the significand that starts with the bits high.q and goes on with the
\* digits lowStart and lowCount more quotient bits of high.rem/d
fractionBits(exp, high, d, lowStart, lowCount) ==
    rounded(exp, high.q, nextBits(high.rem, d, lowCount, lowStart), d)

\* the quotient whose integer part q has len binary digits, r the remainder
\* of the integer division
withWhole(q, len, r, d) ==
    IF len <= HighBits
    THEN fractionBits(len - 1, nextBits(r, d, HighBits - len, q), d, 0, LowBits)
    ELSE fractionBits(len - 1, [q |-> q \div 2^(len - HighBits), rem |-> r], d,
                      q % 2^(len - HighBits), MantissaBits - len)

\* double(n) / double(d) for positive int32 n and d: the binary64 quotient,
\* as its exponent and the two parts of its MantissaBits significand bits
doubleDiv(n, d) ==
    IF n >= d THEN withWhole(n \div d, bitLength(n \div d), n % d, d)
    ELSE fractionBits(0 - (leadingZeros(n, d) + 1),
                      nextBits(normalised(n, d), d, HighBits, 0), d, 0, LowBits)

\* x < y for two positive binary64 values
doubleLess(x, y) ==
    \/ x.exp < y.exp
    \/ /\ x.exp = y.exp
       /\ \/ x.hi < y.hi
          \/ x.hi = y.hi /\ x.lo < y.lo

\* a/b < c/d for naturals a, c and positive b, d, by continued fractions:
\* no product is formed
RECURSIVE ratioLess(_, _, _, _)
ratioLess(a, b, c, d) ==
    IF a \div b # c \div d THEN a \div b < c \div d
    ELSE IF c % d = 0 THEN FALSE
    ELSE IF a % b = 0 THEN TRUE
    ELSE ratioLess(d, c % d, b, a % b)

\* an offer entry as far as the order of offers goes
OfferEntry(id, n, d) == [offerID |-> id, price |-> [n |-> n, d |-> d]]

\* the comparison of isBetterOffer on the two quotients
betterPrice(lhsPrice, rhsPrice, lhs, rhs) ==
    IF doubleLess(lhsPrice, rhsPrice) THEN TRUE
    ELSE IF lhsPrice = rhsPrice THEN lhs.offerID < rhs.offerID
    ELSE FALSE

\* isBetterOffer: lower price first, then lower offerID
isBetterOffer(lhs, rhs) ==
    \E lhsPrice \in {doubleDiv(lhs.price.n, lhs.price.d)},
       rhsPrice \in {doubleDiv(rhs.price.n, rhs.price.d)} :
        betterPrice(lhsPrice, rhsPrice, lhs, rhs)

\* ------------------------------------------------------------- offers
\* an offer of the scope stack as an offer entry: its price is val/1
asOfferEntry(o) == OfferEntry(KeyIndex(o.key), o.e.val, 1)

\* isBetterOffer on two offers of price n/1: double(n) / double(1) is n, so
\* the quotients compare as the numerators do
isBetterOfferAtUnitPrice(lhs, rhs) ==
    IF lhs.price.n < rhs.price.n THEN TRUE
    ELSE IF lhs.price.n = rhs.price.n THEN lhs.offerID < rhs.offerID
    ELSE FALSE

NoOffer == [key |-> NoKey, e |-> None]
Offer(k, e) == [key |-> k, e |-> e]

\* the minimum of a non-empty set of offers under isBetterOffer
bestOf(S) ==
    CHOOSE o \in S : \A p \in S : p = o \/ isBetterOfferAtUnitPrice(asOfferEntry(o), asOfferEntry(p))

RECURSIVE sortOffers(_)
sortOffers(S) ==
    IF S = {} THEN <<>> ELSE LET o == bestOf(S) IN <<o>> \o sortOffers(S \ {o})

\* LedgerStateRoot::Impl::loadBestOffers(buying, selling, numOffers, offset):
\* rows of the offers table in best-offer order, LIMIT numOffers OFFSET offset
loadBestOffers(numOffers, offset) ==
    LET all == sortOffers({Offer(k, dbTxn[k]) :
                   k \in {x \in Keys : KeyType(x) = "OFFER" /\ IsEntry(dbTxn[x])}})
        hi == IF offset + numOffers < Len(all) THEN offset + numOffers ELSE Len(all)
    IN SubSeq(all, offset + 1, hi)

\* first offer of a sequence whose key is not excluded
RECURSIVE firstNotExcluded(_, _, _)
firstNotExcluded(offers, exclude, i) ==
    IF i > Len(offers) THEN NoOffer
    ELSE IF offers[i].key \notin exclude THEN offers[i]
    ELSE firstNotExcluded(offers, exclude, i + 1)

RECURSIVE loadMoreOffers(_, _)
\* the while (!cached.allLoaded) loop of LedgerStateRoot::Impl::getBestOffer
loadMoreOffers(cached, exclude) ==
    IF cached.allLoaded THEN [res |-> NoOffer, boc |-> cached]
    ELSE LET newOffers == loadBestOffers(BATCH_SIZE, Len(cached.bestOffers))
             next == [present |-> TRUE,
                      bestOffers |-> cached.bestOffers \o newOffers,
                      allLoaded |-> (Len(newOffers) < BATCH_SIZE)]
             hit == firstNotExcluded(newOffers, exclude, 1)
         IN IF hit # NoOffer THEN [res |-> hit, boc |-> next]
            ELSE loadMoreOffers(next, exclude)

\* LedgerStateRoot::Impl::getBestOffer: the offer returned and the cache after
RootGetBestOffer(exclude) ==
    LET cached == IF mBestOffersCache.present THEN mBestOffersCache
                  ELSE [present |-> TRUE, bestOffers |-> <<>>, allLoaded |-> FALSE]
        hit == firstNotExcluded(cached.bestOffers, exclude, 1)
    IN IF hit # NoOffer THEN [res |-> hit, boc |-> cached]
       ELSE loadMoreOffers(cached, exclude)

RECURSIVE getBestOffer(_, _)
\* LedgerState::Impl::getBestOffer on scope p (or the root)
getBestOffer(p, exclude) ==
    IF p = Root THEN RootGetBestOffer(exclude)
    ELSE LET offerKeys == {k \in keySet(mEntry[p]) : KeyType(k) = "OFFER"}
             cands == {Offer(k, mEntry[p][k]) :
                          k \in {x \in offerKeys \ exclude : IsEntry(mEntry[p][x])}}
             bestOffer == IF cands = {} THEN NoOffer ELSE bestOf(cands)
             par == getBestOffer(mParent(p), exclude \cup offerKeys)
         IN [res |-> IF bestOffer # NoOffer /\ par.res # NoOffer
                     THEN (IF isBetterOfferAtUnitPrice(asOfferEntry(bestOffer), asOfferEntry(par.res))
                           THEN bestOffer ELSE par.res)
                     ELSE (IF bestOffer # NoOffer THEN bestOffer ELSE par.res),
             boc |-> par.boc]

RECURSIVE getAllOffers(_)
\* LedgerState::Impl::getAllOffers / LedgerStateRoot::Impl::getAllOffers
getAllOffers(p) ==
    IF p = Root
    THEN [k \in Keys |-> IF KeyType(k) = "OFFER" /\ IsEntry(dbTxn[k]) THEN dbTxn[k] ELSE Absent]
    ELSE LET offers == getAllOffers(mParent(p))
         IN [k \in Keys |->
                IF mEntry[p][k] = Absent THEN offers[k]
                ELSE IF mEntry[p][k] = None THEN Absent
                ELSE IF KeyType(k) # "OFFER" THEN offers[k]
                ELSE mEntry[p][k]]

RECURSIVE getOffersByAccountAndAsset(_)
\* getOffersByAccountAndAsset for the one seller and asset of the model
getOffersByAccountAndAsset(p) ==
    IF p = Root
    THEN [k \in Keys |-> IF KeyType(k) = "OFFER" /\ IsEntry(dbTxn[k]) THEN dbTxn[k] ELSE Absent]
    ELSE LET offers == getOffersByAccountAndAsset(mParent(p))
         IN [k \in Keys |->
                IF mEntry[p][k] = Absent \/ KeyType(k) # "OFFER" THEN offers[k]
                ELSE IF mEntry[p][k] = None THEN Absent
                ELSE mEntry[p][k]]

\* ------------------------------------------------------------- sealing
\* a seal that stamps the entries whatever mShouldUpdateLastModified says
sealedEntriesAlwaysStamped(s) ==
    [k \in Keys |->
        IF IsEntry(mEntry[s][k])
        THEN [mEntry[s][k] EXCEPT !.lm = mHeader[s]]
        ELSE mEntry[s][k]]

\* mEntry after sealAndMaybeUpdateLastModified
sealedEntries(s) ==
    [k \in Keys |->
        IF mShouldUpdateLastModified[s] /\ IsEntry(mEntry[s][k])
        THEN [mEntry[s][k] EXCEPT !.lm = mHeader[s]]
        ELSE mEntry[s][k]]

\* a seal that leaves the handles registered
SealedKeepsHandles(s) ==
    /\ mIsSealed' = [mIsSealed EXCEPT ![s] = TRUE]
    /\ mEntry' = [mEntry EXCEPT ![s] = sealedEntries(s)]
    /\ UNCHANGED <<mActive, mActiveHeader>>

\* the scope-side effect of sealAndMaybeUpdateLastModified on s
Sealed(s) ==
    /\ mIsSealed' = [mIsSealed EXCEPT ![s] = TRUE]
    /\ mActive' = [mActive EXCEPT ![s] = NoHandles]
    /\ mActiveHeader' = [mActiveHeader EXCEPT ![s] = FALSE]
    /\ mEntry' = [mEntry EXCEPT ![s] = sealedEntries(s)]

\* a call that throws before it touched anything
Throws(op, s, k) ==
    /\ last' = Call(op, s, k, FALSE, "throw")
    /\ UNCHANGED <<scopeVars, rootVars, histVars>>

\* a call that throws after reading through to the root's entry cache
ThrowsAfterReads(op, s, k, cache) ==
    /\ last' = Call(op, s, k, FALSE, "throw")
    /\ mEntryCache' = cache
    /\ UNCHANGED <<scopeVars, mBestOffersCache, mTransaction, db, dbTxn, histVars>>

\* ------------------------------------------------------- construction
\* an addChild without the "already has child" test
RootAddChildAlways == TRUE

\* LedgerStateRoot::Impl::addChild accepts a child
RootAddChildAllowed == mChild[Root] = NULL

\* LedgerState::Impl::addChild accepts a child
AddChildAllowed(p) == checkNotSealed(p) /\ checkNoChild(p)

\* what a scope remembers of its parent when it is opened
NoSnap == [entries |-> EmptyMap, header |-> 1]

\* LedgerState::LedgerState(parent, shouldUpdateLastModified): Impl's
\* constructor copies the parent's header, then mParent.addChild(self).
\* The new object takes the slot above its parent; an object that ended
\* leaves its slot when it is destroyed.
Construct(p) ==
    /\ p + 1 \in Scopes
    /\ p = Root \/ Live(p)
    /\ LET n == p + 1
           allowed == IF p = Root THEN RootAddChildAllowed ELSE AddChildAllowed(p)
       IN IF ~allowed THEN Throws("construct", p, NoKey)
          ELSE /\ life[n] # "ended"
               /\ life' = [life EXCEPT ![n] = "live"]
               /\ mChild' = [x \in Parents |-> IF x = p THEN n
                                               ELSE IF x = n THEN NULL ELSE mChild[x]]
               /\ mHeader' = [mHeader EXCEPT ![n] = mHeader[p]]
               /\ mEntry' = [mEntry EXCEPT ![n] = EmptyMap]
               /\ mActive' = [x \in Scopes |-> IF x \in {p, n} THEN NoHandles ELSE mActive[x]]
               /\ mActiveHeader' = [x \in Scopes |-> IF x \in {p, n} THEN FALSE
                                                     ELSE mActiveHeader[x]]
               /\ mIsSealed' = [mIsSealed EXCEPT ![n] = FALSE]
               /\ mShouldUpdateLastModified' =
                      [mShouldUpdateLastModified EXCEPT ![n] = updArg]
               /\ mTransaction' = IF p = Root THEN TRUE ELSE mTransaction
               /\ snap' = [snap EXCEPT ![n] =
                             [entries |-> IF p = Root THEN db ELSE mEntry[p],
                              header |-> mHeader[p]]]
               /\ ends' = [ends EXCEPT ![n] = 0]
               /\ nAttached' = [nAttached EXCEPT ![p] = IF @ < 2 THEN @ + 1 ELSE @]
               /\ last' = Call("construct", p, NoKey, TRUE, "-")
               /\ UNCHANGED <<mEntryCache, mBestOffersCache, db, dbTxn, updArg, stray>>

\* ------------------------------------------------ create / load / erase
\* the lastModifiedLedgerSeq callers give a new entry
NewEntryLm == 1

\* a create without the "Key already exists" test
CreateOverExisting(s, k, v) ==
    /\ Live(s)
    /\ IF ~checkNotSealed(s) \/ ~checkNoChild(s) THEN Throws("create", s, k)
       ELSE /\ mEntry' = [mEntry EXCEPT ![s][k] = Entry(v, NewEntryLm)]
            /\ mActive' = [mActive EXCEPT ![s][k] = "entry"]
            /\ mEntryCache' = cacheAfterReads(s, {k})
            /\ last' = Call("create", s, k, TRUE, "handle")
            /\ UNCHANGED <<life, mChild, mHeader, mActiveHeader,
                           mShouldUpdateLastModified, mIsSealed, mBestOffersCache,
                           mTransaction, db, dbTxn, histVars>>

\* LedgerState::Impl::create
Create(s, k, v) ==
    /\ Live(s)
    /\ IF ~checkNotSealed(s) \/ ~checkNoChild(s) THEN Throws("create", s, k)
       ELSE IF IsEntry(getNewestVersion(s, k))
       THEN ThrowsAfterReads("create", s, k, cacheAfterReads(s, {k}))
       ELSE /\ mEntry' = [mEntry EXCEPT ![s][k] = Entry(v, NewEntryLm)]
            /\ mActive' = [mActive EXCEPT ![s][k] = "entry"]
            /\ mEntryCache' = cacheAfterReads(s, {k})
            /\ last' = Call("create", s, k, TRUE, "handle")
            /\ UNCHANGED <<life, mChild, mHeader, mActiveHeader,
                           mShouldUpdateLastModified, mIsSealed, mBestOffersCache,
                           mTransaction, db, dbTxn, histVars>>

\* a test that never finds the key active
keyIsNeverActive(s, k) == FALSE

\* the "Key is active" test of load, loadWithoutRecord and erase
keyIsActive(s, k) == mActive[s][k] # "none"

\* LedgerState::Impl::load
Load(s, k) ==
    /\ Live(s)
    /\ IF ~checkNotSealed(s) \/ ~checkNoChild(s) \/ keyIsActive(s, k)
       THEN Throws("load", s, k)
       ELSE LET newest == getNewestVersion(s, k)
            IN /\ mEntryCache' = cacheAfterReads(s, {k})
               /\ IF IsEntry(newest)
                  THEN /\ mEntry' = [mEntry EXCEPT ![s][k] = newest]
                       /\ mActive' = [mActive EXCEPT ![s][k] = "entry"]
                       /\ last' = Call("load", s, k, TRUE, "handle")
                  ELSE /\ UNCHANGED <<mEntry, mActive>>
                       /\ last' = Call("load", s, k, TRUE, "empty")
               /\ UNCHANGED <<life, mChild, mHeader, mActiveHeader,
                              mShouldUpdateLastModified, mIsSealed, mBestOffersCache,
                              mTransaction, db, dbTxn, histVars>>

\* LedgerState::Impl::loadWithoutRecord
LoadWithoutRecord(s, k) ==
    /\ Live(s)
    /\ IF ~checkNotSealed(s) \/ ~checkNoChild(s) \/ keyIsActive(s, k)
       THEN Throws("loadWithoutRecord", s, k)
       ELSE LET newest == getNewestVersion(s, k)
            IN /\ mEntryCache' = cacheAfterReads(s, {k})
               /\ IF IsEntry(newest)
                  THEN /\ mActive' = [mActive EXCEPT ![s][k] = "const"]
                       /\ last' = Call("loadWithoutRecord", s, k, TRUE, "handle")
                  ELSE /\ UNCHANGED mActive
                       /\ last' = Call("loadWithoutRecord", s, k, TRUE, "empty")
               /\ UNCHANGED <<life, mChild, mHeader, mEntry, mActiveHeader,
                              mShouldUpdateLastModified, mIsSealed, mBestOffersCache,
                              mTransaction, db, dbTxn, histVars>>

\* an erase that only ever removes the mapping of the scope
erasedValueNeverMarked(s, k) == Absent

\* an erase that always leaves the erased marker
erasedValueAlwaysMarked(s, k) == None

\* what erase leaves in mEntry[s][k]: nothing for a key created in s,
\* the erased marker for a key that exists in a previous LedgerState
erasedValue(s, k) ==
    IF ~IsEntry(getNewestVersion(mParent(s), k)) THEN Absent ELSE None

\* LedgerState::Impl::erase
Erase(s, k) ==
    /\ Live(s)
    /\ IF ~checkNotSealed(s) \/ ~checkNoChild(s) THEN Throws("erase", s, k)
       ELSE IF ~IsEntry(getNewestVersion(s, k)) \/ keyIsActive(s, k)
       THEN ThrowsAfterReads("erase", s, k, cacheAfterReads(s, {k}))
       ELSE /\ mEntry' = [mEntry EXCEPT ![s][k] = erasedValue(s, k)]
            /\ mEntryCache' = cacheAfterReads(mParent(s), {k})
            /\ last' = Call("erase", s, k, TRUE, "-")
            /\ UNCHANGED <<life, mChild, mHeader, mActive, mActiveHeader,
                           mShouldUpdateLastModified, mIsSealed, mBestOffersCache,
                           mTransaction, db, dbTxn, histVars>>

\* LedgerStateEntryImpl::erase through a live handle: deactivate, then erase
EntryErase(s, k) ==
    /\ Live(s)
    /\ mActive[s][k] = "entry"
    /\ mActive' = [mActive EXCEPT ![s][k] = "none"]
    /\ IF ~checkNotSealed(s) \/ ~checkNoChild(s) \/ ~IsEntry(getNewestVersion(s, k))
       THEN /\ last' = Call("entry.erase", s, k, FALSE, "throw")
            /\ UNCHANGED <<mEntry, mEntryCache>>
       ELSE /\ mEntry' = [mEntry EXCEPT ![s][k] = erasedValue(s, k)]
            /\ mEntryCache' = cacheAfterReads(mParent(s), {k})
            /\ last' = Call("entry.erase", s, k, TRUE, "-")
    /\ UNCHANGED <<life, mChild, mHeader, mActiveHeader,
                   mShouldUpdateLastModified, mIsSealed, mBestOffersCache,
                   mTransaction, db, dbTxn, histVars>>

\* LedgerStateEntry / ConstLedgerStateEntry dropped or deactivate()d
Deactivate(s, k) ==
    /\ Live(s)
    /\ mActive[s][k] # "none"
    /\ mActive' = [mActive EXCEPT ![s][k] = "none"]
    /\ last' = Call("deactivate", s, k, TRUE, "-")
    /\ UNCHANGED <<life, mChild, mHeader, mEntry, mActiveHeader,
                   mShouldUpdateLastModified, mIsSealed, rootVars, histVars>>

\* a write through LedgerStateEntry::current()
Modify(s, k, v) ==
    /\ Live(s)
    /\ mActive[s][k] = "entry"
    /\ mEntry[s][k].val # v
    /\ mEntry' = [mEntry EXCEPT ![s][k].val = v]
    /\ last' = Call("modify", s, k, TRUE, "-")
    /\ UNCHANGED <<life, mChild, mHeader, mActive, mActiveHeader,
                   mShouldUpdateLastModified, mIsSealed, rootVars, histVars>>

\* ------------------------------------------------------------- header
\* LedgerState::Impl::loadHeader
LoadHeader(s) ==
    /\ Live(s)
    /\ IF ~checkNotSealed(s) \/ ~checkNoChild(s) \/ mActiveHeader[s]
       THEN Throws("loadHeader", s, NoKey)
       ELSE /\ mActiveHeader' = [mActiveHeader EXCEPT ![s] = TRUE]
            /\ last' = Call("loadHeader", s, NoKey, TRUE, "handle")
            /\ UNCHANGED <<life, mChild, mHeader, mEntry, mActive,
                           mShouldUpdateLastModified, mIsSealed, rootVars, histVars>>

\* LedgerStateHeader dropped or deactivate()d
DeactivateHeader(s) ==
    /\ Live(s)
    /\ mActiveHeader[s]
    /\ mActiveHeader' = [mActiveHeader EXCEPT ![s] = FALSE]
    /\ last' = Call("deactivateHeader", s, NoKey, TRUE, "-")
    /\ UNCHANGED <<life, mChild, mHeader, mEntry, mActive,
                   mShouldUpdateLastModified, mIsSealed, rootVars, histVars>>

\* a write through LedgerStateHeader::current()
ModifyHeader(s, q) ==
    /\ Live(s)
    /\ mActiveHeader[s]
    /\ mHeader[s] # q
    /\ mHeader' = [mHeader EXCEPT ![s] = q]
    /\ last' = Call("modifyHeader", s, NoKey, TRUE, "-")
    /\ UNCHANGED <<life, mChild, mEntry, mActive, mActiveHeader,
                   mShouldUpdateLastModified, mIsSealed, rootVars, histVars>>

\* an unsealHeader whose header handle outlives the call
UnsealHeaderKeepsHandle(s, q) ==
    /\ Live(s)
    /\ IF ~mIsSealed[s] \/ mActiveHeader[s] THEN Throws("unsealHeader", s, NoKey)
       ELSE /\ mHeader' = [mHeader EXCEPT ![s] = q]
            /\ mActiveHeader' = [mActiveHeader EXCEPT ![s] = TRUE]
            /\ last' = Call("unsealHeader", s, NoKey, TRUE, "-")
            /\ UNCHANGED <<life, mChild, mEntry, mActive,
                           mShouldUpdateLastModified, mIsSealed, rootVars, histVars>>

\* LedgerState::Impl::unsealHeader(f), f leaving ledgerSeq = q when it
\* returns or throws; the local LedgerStateHeader deactivates the header when
\* the call returns or f throws
UnsealHeader(s, q) ==
    /\ Live(s)
    /\ IF ~mIsSealed[s] \/ mActiveHeader[s] THEN Throws("unsealHeader", s, NoKey)
       ELSE /\ mHeader' = [mHeader EXCEPT ![s] = q]
            /\ mActiveHeader' = [mActiveHeader EXCEPT ![s] = FALSE]
            /\ \E fThrows \in BOOLEAN :
                  last' = IF fThrows THEN Call("unsealHeader", s, NoKey, FALSE, "f")
                          ELSE Call("unsealHeader", s, NoKey, TRUE, "-")
            /\ UNCHANGED <<life, mChild, mEntry, mActive,
                           mShouldUpdateLastModified, mIsSealed, rootVars, histVars>>

\* ---------------------------------------------- outputs that seal a scope
\* the assert(entry) of getChanges holds for every key of mEntry[s]
getChangesAssertion(s) ==
    \A k \in Keys : mEntry[s][k] = None => IsEntry(getNewestVersion(mParent(s), k))

\* a getChanges that never looks at the parent's version
changeOfIgnoringParent(s, k) ==
    IF IsEntry(mEntry[s][k]) THEN "CREATED" ELSE "REMOVED"

\* what getChanges reports for key k: CREATED, UPDATED or REMOVED
changeOf(s, k) ==
    IF IsEntry(getNewestVersion(mParent(s), k))
    THEN (IF IsEntry(mEntry[s][k]) THEN "UPDATED" ELSE "REMOVED")
    ELSE "CREATED"

\* LedgerState::Impl::getChanges
GetChanges(s) ==
    /\ Live(s)
    /\ IF ~checkNoChild(s) THEN Throws("getChanges", s, NoKey)
       ELSE /\ Sealed(s)
            /\ mEntryCache' = cacheAfterReads(mParent(s), keySet(mEntry[s]))
            /\ last' = IF getChangesAssertion(s)
                       THEN Call("getChanges", s, NoKey, TRUE, "-")
                       ELSE Call("getChanges", s, NoKey, FALSE, "assert")
            /\ UNCHANGED <<life, mChild, mHeader, mShouldUpdateLastModified,
                           mBestOffersCache, mTransaction, db, dbTxn, histVars>>

\* LedgerState::Impl::getDelta
GetDelta(s) ==
    /\ Live(s)
    /\ IF ~checkNoChild(s) THEN Throws("getDelta", s, NoKey)
       ELSE /\ Sealed(s)
            /\ mEntryCache' = cacheAfterReads(mParent(s), keySet(mEntry[s]))
            /\ last' = Call("getDelta", s, NoKey, TRUE, "-")
            /\ UNCHANGED <<life, mChild, mHeader, mShouldUpdateLastModified,
                           mBestOffersCache, mTransaction, db, dbTxn, histVars>>

\* LedgerState::Impl::getLiveEntries
GetLiveEntries(s) ==
    /\ Live(s)
    /\ IF ~checkNoChild(s) THEN Throws("getLiveEntries", s, NoKey)
       ELSE /\ Sealed(s)
            /\ last' = Call("getLiveEntries", s, NoKey, TRUE, "-")
            /\ UNCHANGED <<life, mChild, mHeader, mShouldUpdateLastModified,
                           rootVars, histVars>>

\* LedgerState::Impl::getDeadEntries
GetDeadEntries(s) ==
    /\ Live(s)
    /\ IF ~checkNoChild(s) THEN Throws("getDeadEntries", s, NoKey)
       ELSE /\ Sealed(s)
            /\ last' = Call("getDeadEntries", s, NoKey, TRUE, "-")
            /\ UNCHANGED <<life, mChild, mHeader, mShouldUpdateLastModified,
                           rootVars, histVars>>

\* ------------------------------------------------------------- commit
\* mImpl.reset(): the Impl of every scope in D is gone
ImplReset(D, entries, active, activeHeader, sealed) ==
    /\ mEntry' = [x \in Scopes |-> IF x \in D THEN EmptyMap ELSE entries[x]]
    /\ mActive' = [x \in Scopes |-> IF x \in D THEN NoHandles ELSE active[x]]
    /\ mActiveHeader' = [x \in Scopes |-> IF x \in D THEN FALSE ELSE activeHeader[x]]
    /\ mIsSealed' = [x \in Scopes |-> IF x \in D THEN FALSE ELSE sealed[x]]
    /\ mShouldUpdateLastModified' =
           [x \in Scopes |-> IF x \in D THEN FALSE ELSE mShouldUpdateLastModified[x]]

\* a commitChild that records every erased key as erased in p
commitChildKeepsTombstone(p, k, v) ==
    IF v = Absent THEN mEntry[p][k]
    ELSE IF IsEntry(v) THEN v
    ELSE None

\* LedgerState::Impl::commitChild: mEntry of p after merging its child's entries
commitChildEntry(p, k, v) ==
    IF v = Absent THEN mEntry[p][k]
    ELSE IF IsEntry(v) THEN v
    ELSE IF ~IsEntry(getNewestVersion(mParent(p), k)) THEN Absent
    ELSE None

\* commit of s into a parent scope
CommitToScope(s) ==
    LET p == mParent(s)
        se == sealedEntries(s)
    IN /\ p # Root
       /\ ImplReset({s}, [mEntry EXCEPT ![p] = [k \in Keys |-> commitChildEntry(p, k, se[k])]],
                    mActive, mActiveHeader, mIsSealed)
       /\ mHeader' = [mHeader EXCEPT ![p] = mHeader[s], ![s] = 1]
       /\ mChild' = [mChild EXCEPT ![p] = NULL]
       /\ mEntryCache' = cacheAfterReads(mParent(p), {k \in Keys : se[k] = None})
       /\ life' = [life EXCEPT ![s] = "ended"]
       /\ ends' = [ends EXCEPT ![s] = IF @ < 2 THEN @ + 1 ELSE @]
       /\ nAttached' = [nAttached EXCEPT ![p] = IF @ > 0 THEN @ - 1 ELSE @]
       /\ snap' = [snap EXCEPT ![s] = NoSnap]
       /\ last' = [Call("commit", s, NoKey, TRUE, "-") EXCEPT !.args = se]
       /\ UNCHANGED <<mBestOffersCache, mTransaction, db, dbTxn, updArg, stray>>

\* the row storeAccount/storeData/storeOffer/storeTrustLine leave for an entry
rowOf(e) == IF IsEntry(e) THEN e ELSE None

\* whether a store call on key k can fail after it wrote the row
\* (storeAccount: insertOrUpdateAccount, then storeSigners)
canFailAfterWrite(k, e) == KeyType(k) = "ACCOUNT" /\ IsEntry(e)

\* a catch block that leaves the entry cache as the writes so far made it
cacheNotInvalidated(written, se) ==
    [k \in Keys |-> IF k \in written THEN rowOf(se[k]) ELSE mEntryCache[k]]

\* the catch (...) of LedgerStateRoot::Impl::commitChild: a new, empty cache
cacheAfterFailedCommit(written, se) ==
    EmptyMap

\* LedgerStateRoot::Impl::commitChild with the store failing at the f-th key
\* of the child (f = 0: no failure)
CommitToRoot(s, f, part) ==
    LET se == sealedEntries(s)
        keys == entryKeys(se)
        written == {keys[i] : i \in 1..(IF f = 0 THEN Len(keys) ELSE f - 1)}
                     \cup (IF f # 0 /\ part THEN {keys[f]} ELSE {})
    IN /\ mParent(s) = Root
       /\ f \in 0..Len(keys)
       /\ part => (f # 0 /\ canFailAfterWrite(keys[f], se[keys[f]]))
       /\ mBestOffersCache' = NoBestOffers
       /\ dbTxn' = [k \in Keys |-> IF k \in written THEN rowOf(se[k]) ELSE dbTxn[k]]
       /\ IF f # 0
          THEN \* catch (...): new entry cache, rethrow; LedgerState::commit
               \* does not reach mImpl.reset()
               /\ mEntryCache' = cacheAfterFailedCommit(written, se)
               /\ Sealed(s)
               /\ last' = Call("commit", s, NoKey, FALSE, "throw")
               /\ UNCHANGED <<life, mChild, mHeader, mShouldUpdateLastModified,
                              mTransaction, db, histVars>>
          ELSE /\ mEntryCache' = [k \in Keys |-> IF k \in written THEN rowOf(se[k])
                                                 ELSE mEntryCache[k]]
               /\ db' = dbTxn'
               /\ mTransaction' = FALSE
               /\ mChild' = [mChild EXCEPT ![Root] = NULL]
               /\ mHeader' = [mHeader EXCEPT ![Root] = mHeader[s], ![s] = 1]
               /\ ImplReset({s}, mEntry, mActive, mActiveHeader, mIsSealed)
               /\ life' = [life EXCEPT ![s] = "ended"]
               /\ ends' = [ends EXCEPT ![s] = IF @ < 2 THEN @ + 1 ELSE @]
               /\ nAttached' = [nAttached EXCEPT ![Root] = IF @ > 0 THEN @ - 1 ELSE @]
               /\ snap' = [snap EXCEPT ![s] = NoSnap]
               /\ last' = [Call("commit", s, NoKey, TRUE, "-") EXCEPT !.args = se]
               /\ UNCHANGED <<updArg, stray>>

\* LedgerState::commit
Commit(s) ==
    /\ Live(s)
    /\ IF ~checkNoChild(s) THEN Throws("commit", s, NoKey)
       ELSE \/ CommitToScope(s)
            \/ \E f \in 0..Len(KeySeq), part \in BOOLEAN : CommitToRoot(s, f, part)

\* ------------------------------------------------------------ rollback
\* a rollback that detaches from its parent before it rolls its child back
RECURSIVE rollbackOutermostFirst(_)
rollbackOutermostFirst(s) ==
    IF mChild[s] = NULL THEN <<s>> ELSE <<s>> \o rollbackOutermostFirst(mChild[s])

RECURSIVE rollbackOrder(_)
\* the scopes whose parents get rollbackChild when s rolls back, in call
\* order: LedgerState::Impl::rollback rolls mChild back first
rollbackOrder(s) ==
    IF mChild[s] = NULL THEN <<s>> ELSE rollbackOrder(mChild[s]) \o <<s>>

Range(q) == {q[i] : i \in 1..Len(q)}

\* rollback of s and of its live descendants; the object of s is then in
\* state `end`
RollbackEffect(s, end, op) ==
    LET order == rollbackOrder(s)
        D == Range(order)
        detached == {mParent(x) : x \in D}
    IN /\ ImplReset(D, mEntry, mActive, mActiveHeader, mIsSealed)
       /\ life' = [x \in Scopes |-> IF x = s THEN end
                                    ELSE IF x \in D THEN "ended" ELSE life[x]]
       /\ mChild' = [x \in Parents |-> IF x \in detached \/ x \in D THEN NULL ELSE mChild[x]]
       /\ ends' = [x \in Scopes |-> IF x \in D /\ ends[x] < 2 THEN ends[x] + 1 ELSE ends[x]]
       /\ nAttached' = [x \in Parents |-> IF x \in detached /\ nAttached[x] > 0
                                          THEN nAttached[x] - 1 ELSE nAttached[x]]
       /\ stray' = (stray \/ \E x \in D : mChild[mParent(x)] # x)
       /\ snap' = [x \in Scopes |-> IF x \in D THEN NoSnap ELSE snap[x]]
       /\ IF mParent(s) = Root
          THEN \* LedgerStateRoot::Impl::rollbackChild
               /\ mTransaction' = FALSE
               /\ dbTxn' = db
          ELSE UNCHANGED <<mTransaction, dbTxn>>
       /\ mHeader' = [x \in Parents |-> IF x \in D THEN 1 ELSE mHeader[x]]
       /\ last' = [Call(op, s, NoKey, TRUE, "-") EXCEPT !.order = order]
       /\ UNCHANGED <<mEntryCache, mBestOffersCache, db, updArg>>

\* LedgerState::rollback
Rollback(s) ==
    /\ Live(s)
    /\ RollbackEffect(s, "ended", "rollback")

\* a destructor that rolls back whether or not the scope has ended
destructorAlwaysRollsBack(s) == TRUE

\* the if (mImpl) of LedgerState::~LedgerState
destructorRollsBack(s) == life[s] = "live"

\* LedgerState::~LedgerState
Drop(s) ==
    /\ s \in Scopes
    /\ life[s] \in {"live", "ended"}
    /\ IF destructorRollsBack(s) THEN RollbackEffect(s, "none", "drop")
       ELSE /\ life' = [life EXCEPT ![s] = "none"]
            /\ last' = Call("drop", s, NoKey, TRUE, "-")
            /\ UNCHANGED <<mChild, mHeader, mEntry, mActive, mActiveHeader,
                           mShouldUpdateLastModified, mIsSealed, rootVars, histVars>>

\* ------------------------------------------------------- offer loads
\* the load(self, key) calls of loadAllOffers / loadOffersByAccountAndAsset
\* over the keys of `offers`, in key order; the first active key throws, and
\* the handles made so far are dropped with the half-built result
LoadEach(op, s, offers) ==
    LET keys == entryKeys(offers)
        bad == {i \in 1..Len(keys) : keyIsActive(s, keys[i])}
        n == IF bad = {} THEN Len(keys) + 1 ELSE CHOOSE i \in bad : \A j \in bad : i <= j
        done == {keys[i] : i \in 1..(n - 1)}
        got == {k \in done : IsEntry(getNewestVersion(s, k))}
    IN IF keys = <<>>
       THEN /\ last' = Call(op, s, NoKey, TRUE, "empty")
            /\ UNCHANGED <<scopeVars, rootVars, histVars>>
       ELSE IF ~checkNotSealed(s) \/ ~checkNoChild(s) THEN Throws(op, s, NoKey)
       ELSE /\ mEntry' = [mEntry EXCEPT ![s] =
                            [k \in Keys |-> IF k \in got THEN getNewestVersion(s, k)
                                            ELSE mEntry[s][k]]]
            /\ mEntryCache' = cacheAfterReads(s, done)
            /\ IF n <= Len(keys)
               THEN /\ UNCHANGED mActive
                    /\ last' = Call(op, s, keys[n], FALSE, "throw")
               ELSE /\ mActive' = [mActive EXCEPT ![s] =
                                     [k \in Keys |-> IF k \in got THEN "entry" ELSE mActive[s][k]]]
                    /\ last' = Call(op, s, NoKey, TRUE, "handles")
            /\ UNCHANGED <<life, mChild, mHeader, mActiveHeader,
                           mShouldUpdateLastModified, mIsSealed, mBestOffersCache,
                           mTransaction, db, dbTxn, histVars>>

\* LedgerState::Impl::loadAllOffers
LoadAllOffers(s) ==
    /\ Live(s)
    /\ LoadEach("loadAllOffers", s, getAllOffers(s))

\* LedgerState::Impl::loadOffersByAccountAndAsset
LoadOffersByAccountAndAsset(s) ==
    /\ Live(s)
    /\ IF ~checkNotSealed(s) \/ ~checkNoChild(s)
       THEN Throws("loadOffersByAccountAndAsset", s, NoKey)
       ELSE LoadEach("loadOffersByAccountAndAsset", s, getOffersByAccountAndAsset(s))

\* LedgerState::Impl::loadBestOffer
LoadBestOffer(s) ==
    /\ Live(s)
    /\ IF ~checkNotSealed(s) \/ ~checkNoChild(s) THEN Throws("loadBestOffer", s, NoKey)
       ELSE LET r == getBestOffer(s, {})
                k == r.res.key
            IN /\ mBestOffersCache' = r.boc
               /\ IF r.res = NoOffer
                  THEN /\ last' = Call("loadBestOffer", s, NoKey, TRUE, "empty")
                       /\ UNCHANGED <<mEntry, mActive, mEntryCache>>
                  ELSE IF keyIsActive(s, k)
                  THEN /\ last' = Call("loadBestOffer", s, k, FALSE, "throw")
                       /\ UNCHANGED <<mEntry, mActive, mEntryCache>>
                  ELSE /\ mEntryCache' = cacheAfterReads(s, {k})
                       /\ IF IsEntry(getNewestVersion(s, k))
                          THEN /\ mEntry' = [mEntry EXCEPT ![s][k] = getNewestVersion(s, k)]
                               /\ mActive' = [mActive EXCEPT ![s][k] = "entry"]
                               /\ last' = Call("loadBestOffer", s, k, TRUE, "handle")
                          ELSE /\ UNCHANGED <<mEntry, mActive>>
                               /\ last' = Call("loadBestOffer", s, k, TRUE, "empty")
               /\ UNCHANGED <<life, mChild, mHeader, mActiveHeader,
                              mShouldUpdateLastModified, mIsSealed, mTransaction, db, dbTxn,
                              histVars>>

\* LedgerState::getBestOffer(buying, selling, {}) called on a scope
GetBestOffer(s) ==
    /\ Live(s)
    /\ mBestOffersCache' = getBestOffer(s, {}).boc
    /\ last' = Call("getBestOffer", s, getBestOffer(s, {}).res.key, TRUE, "-")
    /\ UNCHANGED <<scopeVars, mEntryCache, mTransaction, db, dbTxn, histVars>>

\* ============================================== pending envelopes pipeline
\* slots of the pipeline: 1..MaxSlot
MaxSlot == 2
Slots == 1..MaxSlot

\* content hashes; what is behind "qbad" is not a sane quorum set
QSetHashes == {"qsane", "qbad"}
TxSetHashes == {"tx"}
NoTxSet == "-"
isQuorumSetSane(h) == h = "qsane"

\* SCPEnvelope: its slot, its quorum-set hash, at most one txset hash
Env(slot, q, t) == [slotIndex |-> slot, qset |-> q, txset |-> t]
EnvSeq == <<Env(1, "qsane", "tx"), Env(1, "qbad", NoTxSet), Env(1, "qsane", NoTxSet),
            Env(2, "qsane", "tx"), Env(2, "qbad", "tx")>>
Envelopes == {EnvSeq[i] : i \in 1..Len(EnvSeq)}

\* SlotEnvelopes of a slot nothing was recorded for
NoSlotEnvelopes ==
    [mDiscardedEnvelopes |-> {}, mProcessedEnvelopes |-> {},
     mFetchingEnvelopes |-> {}, mReadyEnvelopes |-> <<>>]

VARIABLES
    mEnvelopes,         \* slot -> SlotEnvelopes
    mKnownQSet,         \* hashes of the quorum sets in the cache
    mTxSetCache,        \* txset hash -> last slot seen, 0 when not cached
    mQuorumSetFetcher,  \* quorum-set hash -> envelopes waiting for it
    mTxSetFetcher,      \* txset hash -> envelopes waiting for it
    minSlot             \* lower bound of the slots recv accepts

peVars == <<mEnvelopes, mKnownQSet, mTxSetCache, mQuorumSetFetcher, mTxSetFetcher, minSlot>>

\* the pipeline's containers as one value, so that steps compose
PE == [env |-> mEnvelopes, known |-> mKnownQSet, txc |-> mTxSetCache,
       qf |-> mQuorumSetFetcher, tf |-> mTxSetFetcher]

SetPE(P) ==
    /\ mEnvelopes' = P.env
    /\ mKnownQSet' = P.known
    /\ mTxSetCache' = P.txc
    /\ mQuorumSetFetcher' = P.qf
    /\ mTxSetFetcher' = P.tf

InSeq(q, x) == \E i \in 1..Len(q) : q[i] = x
Without(q, M) == LET keep(x) == x \notin M IN SelectSeq(q, keep)

\* PendingEnvelopes::isDiscarded / isProcessed / isReady, and fetching
isDiscarded(P, e) == e \in P.env[e.slotIndex].mDiscardedEnvelopes

\* a test that finds no envelope processed
isProcessedNever(P, e) == FALSE

isProcessed(P, e) == e \in P.env[e.slotIndex].mProcessedEnvelopes
isFetching(P, e) == e \in P.env[e.slotIndex].mFetchingEnvelopes
isReady(P, e) == InSeq(P.env[e.slotIndex].mReadyEnvelopes, e)

\* a test that looks at the quorum set only
isFullyFetchedQSetOnly(P, e) == e.qset \in P.known

\* PendingEnvelopes::isFullyFetched
isFullyFetched(P, e) ==
    /\ e.qset \in P.known
    /\ e.txset = NoTxSet \/ P.txc[e.txset] # 0

\* a stopFetch that leaves every waiter where it is
stopFetchNothing(P, M) == P

\* PendingEnvelopes::stopFetch, ItemFetcher stop(hash, waiter), for a set M
stopFetch(P, M) ==
    [P EXCEPT !.qf = [h \in QSetHashes |-> P.qf[h] \ M],
              !.tf = [h \in TxSetHashes |-> P.tf[h] \ M]]

\* PendingEnvelopes::startFetch, ItemFetcher fetch(hash, waiter) per missing hash
startFetch(P, e) ==
    [P EXCEPT !.qf = [h \in QSetHashes |->
                        IF h = e.qset /\ h \notin P.known THEN P.qf[h] \cup {e} ELSE P.qf[h]],
              !.tf = [h \in TxSetHashes |->
                        IF h = e.txset /\ P.txc[h] = 0 THEN P.tf[h] \cup {e} ELSE P.tf[h]]]

\* PendingEnvelopes::touchFetchCache: the txset's slot becomes max(current, slot)
touchFetchCache(P, e) ==
    IF e.txset # NoTxSet /\ P.txc[e.txset] # 0 /\ P.txc[e.txset] < e.slotIndex
    THEN [P EXCEPT !.txc[e.txset] = e.slotIndex] ELSE P


\* envelopeReady that forgets to take the envelope out of fetching
envelopeReadyKeepsFetching(P, e) ==
    LET Q == stopFetch(P, {e})
    IN touchFetchCache(
         [Q EXCEPT !.env[e.slotIndex].mReadyEnvelopes =
                       IF InSeq(@, e) THEN @ ELSE Append(@, e)], e)

\* PendingEnvelopes::envelopeReady: the envelope leaves fetching for the end
\* of the ready queue, and its txset is touched
envelopeReady(P, e) ==
    LET Q == stopFetch(P, {e})
    IN touchFetchCache(
         [Q EXCEPT !.env[e.slotIndex].mFetchingEnvelopes = @ \ {e},
                   !.env[e.slotIndex].mReadyEnvelopes =
                       IF InSeq(@, e) THEN @ ELSE Append(@, e)], e)

\* step 6 of recv: ready when every dependency is cached, fetching otherwise
fetchOrReady(P, e) ==
    IF isFullyFetched(P, e) THEN envelopeReady(P, e)
    ELSE startFetch([P EXCEPT !.env[e.slotIndex].mFetchingEnvelopes = @ \cup {e}], e)

\* a discard that leaves the fetches of the envelopes running
discardAllKeepsFetches(P, M) ==
    [P EXCEPT !.env = [s \in Slots |->
            LET Ms == {e \in M : e.slotIndex = s}
            IN [mDiscardedEnvelopes |-> P.env[s].mDiscardedEnvelopes \cup Ms,
                mProcessedEnvelopes |-> P.env[s].mProcessedEnvelopes \ Ms,
                mFetchingEnvelopes |-> P.env[s].mFetchingEnvelopes \ Ms,
                mReadyEnvelopes |-> Without(P.env[s].mReadyEnvelopes, Ms)]]]

\* the envelopes of M leave whatever set holds them and become discarded;
\* their fetches stop
discardAll(P, M) ==
    LET Q == stopFetch(P, M)
    IN [Q EXCEPT !.env = [s \in Slots |->
            LET Ms == {e \in M : e.slotIndex = s}
            IN [mDiscardedEnvelopes |-> P.env[s].mDiscardedEnvelopes \cup Ms,
                mProcessedEnvelopes |-> P.env[s].mProcessedEnvelopes \ Ms,
                mFetchingEnvelopes |-> P.env[s].mFetchingEnvelopes \ Ms,
                mReadyEnvelopes |-> Without(P.env[s].mReadyEnvelopes, Ms)]]]

\* PendingEnvelopes::discardSCPEnvelope
discardSCPEnvelope(P, e) == discardAll(P, {e})

\* PendingEnvelopes::discardSCPEnvelopesWithQSet: the sweep over all slots
discardSCPEnvelopesWithQSet(P, h) ==
    discardAll(P, {e \in Envelopes :
                     /\ e.qset = h
                     /\ \/ isDiscarded(P, e) \/ isProcessed(P, e)
                        \/ isFetching(P, e) \/ isReady(P, e)})

RECURSIVE wake(_, _, _)
\* the fetcher wakes the waiters W: each re-enters recv at step 6
wake(P, W, i) ==
    IF i > Len(EnvSeq) THEN P
    ELSE wake(IF EnvSeq[i] \in W THEN fetchOrReady(P, EnvSeq[i]) ELSE P, W, i + 1)

\* PendingEnvelopes::addSCPQuorumSet
addSCPQuorumSet(P, h) ==
    LET cached == [P EXCEPT !.known = @ \cup {h}]
    IN IF isQuorumSetSane(h)
       THEN wake([cached EXCEPT !.qf[h] = {}], P.qf[h], 1)
       ELSE discardSCPEnvelopesWithQSet(cached, h)

Max(a, b) == IF a < b THEN b ELSE a

\* an addTxSet whose fetcher does not forget the waiters it woke
addTxSetKeepsWaiters(P, h, lastSeenSlotIndex) ==
    wake([P EXCEPT !.txc[h] = Max(@, lastSeenSlotIndex)], P.tf[h], 1)

\* PendingEnvelopes::addTxSet
addTxSet(P, h, lastSeenSlotIndex) ==
    wake([P EXCEPT !.txc[h] = Max(@, lastSeenSlotIndex), !.tf[h] = {}], P.tf[h], 1)

\* PendingEnvelopes::DropUnrefencedQsets
DropUnrefencedQsets(P) ==
    [P EXCEPT !.known = {h \in P.known : \E e \in Envelopes :
                            /\ e.qset = h
                            /\ \/ isDiscarded(P, e) \/ isProcessed(P, e)
                               \/ isFetching(P, e) \/ isReady(P, e)}]


\* -------------------------------------------------------- quorum tracker
\* the nodes; mLocalNodeID is the node the tracker is built for
MaxNodes == 5
NodeSeq == <<"L", "A", "B", "C", "D", "E">>
Nodes == {NodeSeq[i] : i \in 1..MaxNodes}
mLocalNodeID == "L"

\* SCPQuorumSetPtr: a descriptor is known by its pointer; the null pointer
NoQSet == "null"
QSets == {"qAB", "qC", "qCD", "qL"}
QSetPtrs == QSets \cup {NoQSet}

\* LocalNode::forAllNodes: the leaves of a descriptor, in the order visited
forAllNodes(q) ==
    CASE q = "qAB" -> <<"A", "B">>
      [] q = "qC" -> <<"C">>
      [] q = "qCD" -> <<"C", "D">>
      [] q = "qL" -> <<"L">>

\* NodeInfo{qSet, distance}, with no closest validators yet
NodeInfo(q, d) ==
    [in |-> TRUE, mQSet |-> q, mDistance |-> d, mClosestQSetValidators |-> {}]

\* a node that has no entry in mQuorum
NoNodeInfo ==
    [in |-> FALSE, mQSet |-> NoQSet, mDistance |-> NULL, mClosestQSetValidators |-> {}]

EmptyQuorum == [n \in Nodes |-> NoNodeInfo]

VARIABLES
    mQuorum,    \* node -> NodeInfo, NoNodeInfo for a node not in the map
    qState,     \* "new": never rebuilt; "clean": rebuilt and every expand
                \* since was accepted; "dirty": an expand was rejected since
    qLast       \* the last call on the tracker and what it returned

qtVars == <<mQuorum, qState, qLast>>

QCall(op, id, q, res) == [op |-> op, id |-> id, q |-> q, res |-> res]

\* QuorumTracker::isNodeDefinitelyInQuorum
isNodeDefinitelyInQuorum(M, id) == M[id].in

\* a distance one step further than it is
newDistSkipsOne(info) == info.mDistance + 2

\* expand: the distance of the leaves of info's descriptor
newDist(info) == info.mDistance + 1

\* an overwritten entry that keeps the distance it had
overrideKeepsDistance(old, d) == [old EXCEPT !.mClosestQSetValidators = {}]

\* expand: the entry of a leaf found again at a strictly smaller distance
overrideEntry(old, d) ==
    [old EXCEPT !.mClosestQSetValidators = {}, !.mDistance = d]

\* expand: the leaf is a node of the local quorum set, or it inherits the
\* validators of the node being expanded
addClosest(M, id, d, lid) ==
    [M EXCEPT ![lid].mClosestQSetValidators =
        @ \cup (IF d = 1 THEN {lid} ELSE M[id].mClosestQSetValidators)]

\* expand: the body of the loop for the leaf lid; res is FALSE when the leaf
\* stops the expansion
expandLeaf(M, id, d, lid) ==
    IF ~M[lid].in
    THEN [map |-> addClosest([M EXCEPT ![lid] = NodeInfo(NoQSet, d)], id, d, lid),
          res |-> TRUE]
    ELSE IF M[lid].mDistance > d
    THEN IF M[lid].mQSet # NoQSet
         THEN [map |-> M, res |-> FALSE]
         ELSE [map |-> addClosest([M EXCEPT ![lid] = overrideEntry(@, d)], id, d, lid),
               res |-> TRUE]
    ELSE IF M[lid].mDistance < d
    THEN [map |-> M, res |-> TRUE]
    ELSE [map |-> addClosest(M, id, d, lid), res |-> TRUE]

RECURSIVE expandLeaves(_, _, _, _, _)
\* expand: the loop over the leaves; once res is false the rest is skipped
expandLeaves(M, id, d, leaves, i) ==
    IF i > Len(leaves) THEN [map |-> M, res |-> TRUE]
    ELSE LET r == expandLeaf(M, id, d, leaves[i])
         IN IF r.res THEN expandLeaves(r.map, id, d, leaves, i + 1) ELSE r

\* an expand that rejects every node that has a descriptor already
expandOnlyOnce(M, id, qSet) ==
    IF ~M[id].in THEN [map |-> M, res |-> FALSE]
    ELSE IF M[id].mQSet = NoQSet
    THEN expandLeaves([M EXCEPT ![id].mQSet = qSet], id, newDist(M[id]),
                      forAllNodes(qSet), 1)
    ELSE [map |-> M, res |-> FALSE]

\* QuorumTracker::expand: the map it leaves and what it returns
expand(M, id, qSet) ==
    IF ~M[id].in THEN [map |-> M, res |-> FALSE]
    ELSE IF M[id].mQSet = NoQSet
    THEN expandLeaves([M EXCEPT ![id].mQSet = qSet], id, newDist(M[id]),
                      forAllNodes(qSet), 1)
    ELSE [map |-> M, res |-> M[id].mQSet = qSet]

\* a backlog that takes the leaves right behind the node being visited
enqueueFirst(backlog, leaves) == <<Head(backlog)>> \o leaves \o Tail(backlog)

\* rebuild: the leaves join the end of the backlog
enqueue(backlog, leaves) == backlog \o leaves

RECURSIVE rebuildLoop(_, _, _)
\* rebuild: the traversal of the backlog; res is FALSE when it throws
rebuildLoop(M, backlog, lookup) ==
    IF backlog = <<>> THEN [map |-> M, res |-> TRUE]
    ELSE LET n == Head(backlog)
         IN IF M[n].mQSet = NoQSet /\ lookup[n] # NoQSet
            THEN LET later == enqueue(backlog, forAllNodes(lookup[n]))
                     r == expand(M, n, lookup[n])
                 IN IF r.res THEN rebuildLoop(r.map, Tail(later), lookup) ELSE r
            ELSE rebuildLoop(M, Tail(backlog), lookup)

\* QuorumTracker::rebuild
rebuild(lookup) ==
    rebuildLoop([EmptyQuorum EXCEPT ![mLocalNodeID] = NodeInfo(NoQSet, 0)],
                <<mLocalNodeID>>, lookup)

\* ============================================ comparing two offers
\* the prices two offers are drawn from: the MaxSmall smallest and the
\* MaxSmall largest int32 numerators and denominators
MaxSmall == 3
PriceNumbers == (1..MaxSmall) \cup {INT32_MAX - i : i \in 0..(MaxSmall - 1)}
MaxOfferID == 2
ComparedOffers ==
    {OfferEntry(id, n, d) : id \in 1..MaxOfferID, n \in PriceNumbers, d \in PriceNumbers}

VARIABLES
    lhsEntry,   \* the first argument of the comparison
    rhsEntry,   \* the second argument of the comparison
    better      \* what isBetterOffer returned: "true" or "false", "-" before the call

priceVars == <<lhsEntry, rhsEntry, better>>

\* ====================================================== the order book
\* offers of the book: their ids are 1..MaxOffers
MaxOffers == 6
OfferIDs == 1..MaxOffers

\* how deep the scopes over the book nest, and how many changes they make
MaxDepth == 2
MaxEdits == 2

\* an offer entry
BookOffer(id, seller, selling, buying, n, d) ==
    [offerID |-> id, sellerID |-> seller, selling |-> selling, buying |-> buying,
     price |-> [n |-> n, d |-> d]]

\* no row of the table, no mapping of a scope, no offer returned
NoRow == BookOffer(0, "-", "-", "-", 0, 1)

\* a key a scope maps to null
Erased == BookOffer(0 - 1, "-", "-", "-", 0, 1)

IsOffer(e) == e.offerID > 0

\* the pairs <<buying, selling>> and the accounts and assets asked about
AssetPairs == {<<"Y", "X">>, <<"Z", "X">>}
BookAssets == {"X", "Y", "Z"}
SellerIDs == {"a1", "a2"}

\* the versions a scope gives offer id: a cheap one, one of another seller
\* whose price differs from the near-one price of the table in the last
\* bits only, and one that buys another asset
OfferVersions(id) ==
    {BookOffer(id, "a1", "X", "Y", 1, 2),
     BookOffer(id, "a2", "X", "Y", INT32_MAX - 1, INT32_MAX - 2),
     BookOffer(id, "a1", "X", "Z", 1, 2)}

\* the tables the book starts from: empty, or offers 1..n of one pair that
\* fill one batch or one batch and a second, their prices falling in steps
\* of two offers, or two offers at one price near one
SteppedBook(n) ==
    [i \in OfferIDs |-> IF i <= n
                        THEN BookOffer(i, "a1", "X", "Y", (MaxOffers - i) \div 2 + 1, 1)
                        ELSE NoRow]
NearBook(n) ==
    [i \in OfferIDs |-> IF i <= n
                        THEN BookOffer(i, "a1", "X", "Y", INT32_MAX, INT32_MAX - 1)
                        ELSE NoRow]
InitialBooks ==
    {SteppedBook(n) : n \in {0, MaxOffers - 1, MaxOffers}} \cup {NearBook(2)}

\* the offers the scopes change: the first two and the last
ChangedIDs == {1, 2, MaxOffers}

\* the exclude sets the book is asked with: the first offer ids
ExcludeSets == {1..k : k \in 0..MaxOffers}

NoCachedOffers == [present |-> FALSE, bestOffers |-> <<>>, allLoaded |-> FALSE]
NoOfferEntries == [i \in OfferIDs |-> NoRow]

VARIABLES
    offers,         \* the offers table: offer id -> its row, NoRow when none
    bookCache,      \* mBestOffersCache: pair -> the prefix cached and allLoaded
    bookEntry,      \* mEntry of each scope over the book: offer id -> entry
    bookDepth,      \* how many scopes are open, each the child of the one below
    bookEdits,      \* how many changes the scopes made
    bookLast        \* the last query of the book, "-" when a change came after it

bookVars == <<offers, bookCache, bookEntry, bookDepth, bookEdits, bookLast>>

BookCall(op, res) == [op |-> op, res |-> res]

\* the order of the rows of one pair in the offers table: ascending price
\* ratio, then ascending offer id
storedBefore(a, b) ==
    \/ ratioLess(a.price.n, a.price.d, b.price.n, b.price.d)
    \/ /\ ~ratioLess(b.price.n, b.price.d, a.price.n, a.price.d)
       /\ a.offerID < b.offerID

RECURSIVE sortRows(_)
sortRows(S) ==
    IF S = {} THEN <<>>
    ELSE LET o == CHOOSE r \in S : \A p \in S \ {r} : storedBefore(r, p)
         IN <<o>> \o sortRows(S \ {o})

\* LedgerStateRoot::Impl::loadBestOffers(buying, selling, numOffers, offset)
loadBestOffersOf(buying, selling, numOffers, offset) ==
    LET all == sortRows({offers[i] : i \in {j \in OfferIDs :
                            /\ IsOffer(offers[j])
                            /\ offers[j].buying = buying
                            /\ offers[j].selling = selling}})
        hi == IF offset + numOffers < Len(all) THEN offset + numOffers ELSE Len(all)
    IN SubSeq(all, offset + 1, hi)

\* the first offer of a sequence whose key is not in exclude
firstIncluded(seq, exclude) ==
    LET ok == {i \in 1..Len(seq) : seq[i].offerID \notin exclude}
    IN IF ok = {} THEN NoRow ELSE seq[CHOOSE i \in ok : \A j \in ok : i <= j]

\* a batch that is full and still taken for the last one
batchIsLastOrFull(newOffers) == Len(newOffers) <= BATCH_SIZE

\* newOffers.size() < BATCH_SIZE: nothing is left to load
batchIsLast(newOffers) == Len(newOffers) < BATCH_SIZE

\* the while (!cached.allLoaded) loop of LedgerStateRoot::Impl::getBestOffer
RECURSIVE loadBatches(_, _, _, _)
loadBatches(cached, buying, selling, exclude) ==
    IF cached.allLoaded THEN [res |-> NoRow, cached |-> cached]
    ELSE LET newOffers ==
                 loadBestOffersOf(buying, selling, BATCH_SIZE, Len(cached.bestOffers))
             next == [present |-> TRUE,
                      bestOffers |-> cached.bestOffers \o newOffers,
                      allLoaded |-> batchIsLast(newOffers)]
             hit == firstIncluded(newOffers, exclude)
         IN IF IsOffer(hit) THEN [res |-> hit, cached |-> next]
            ELSE loadBatches(next, buying, selling, exclude)

\* LedgerStateRoot::Impl::getBestOffer: the offer returned and the cache after
rootBestOffer(buying, selling, exclude) ==
    LET cacheKey == <<buying, selling>>
        cached == [bookCache[cacheKey] EXCEPT !.present = TRUE]
        hit == firstIncluded(cached.bestOffers, exclude)
        r == IF IsOffer(hit) THEN [res |-> hit, cached |-> cached]
             ELSE loadBatches(cached, buying, selling, exclude)
    IN [res |-> r.res, cache |-> [bookCache EXCEPT ![cacheKey] = r.cached]]

\* the least of a non-empty set of offers as the scan of mEntry finds it
leastOffer(S) == CHOOSE o \in S : \A p \in S \ {o} : isBetterOffer(o, p)

\* the exclude set LedgerState::Impl::getBestOffer hands to its parent
excludedBelow(s, exclude) == exclude \cup {i \in OfferIDs : bookEntry[s][i] # NoRow}

\* LedgerState::Impl::getBestOffer on scope s of the book, 0 the root
RECURSIVE bookBestOffer(_, _, _, _)
bookBestOffer(s, buying, selling, exclude) ==
    IF s = 0 THEN rootBestOffer(buying, selling, exclude)
    ELSE LET cands == {bookEntry[s][i] : i \in {j \in OfferIDs \ exclude :
                          /\ IsOffer(bookEntry[s][j])
                          /\ bookEntry[s][j].buying = buying
                          /\ bookEntry[s][j].selling = selling}}
             bestOffer == IF cands = {} THEN NoRow ELSE leastOffer(cands)
             par == bookBestOffer(s - 1, buying, selling, excludedBelow(s, exclude))
         IN [res |-> IF IsOffer(bestOffer) /\ IsOffer(par.res)
                     THEN (IF isBetterOffer(bestOffer, par.res) THEN bestOffer ELSE par.res)
                     ELSE (IF IsOffer(bestOffer) THEN bestOffer ELSE par.res),
             cache |-> par.cache]

\* whether an offer is one of account that sells or buys asset
offerMatches(oe, account, asset) ==
    oe.sellerID = account /\ (oe.selling = asset \/ oe.buying = asset)

\* getOffersByAccountAndAsset on scope s of the book, 0 the root:
\* offer id -> the entry returned for it, NoRow when none
RECURSIVE bookOffersByAccountAndAsset(_, _, _)
bookOffersByAccountAndAsset(s, account, asset) ==
    IF s = 0
    THEN [i \in OfferIDs |-> IF IsOffer(offers[i]) /\ offerMatches(offers[i], account, asset)
                             THEN offers[i] ELSE NoRow]
    ELSE LET res == bookOffersByAccountAndAsset(s - 1, account, asset)
         IN [i \in OfferIDs |->
                IF bookEntry[s][i] = NoRow THEN res[i]
                ELSE IF bookEntry[s][i] = Erased THEN NoRow
                ELSE IF offerMatches(bookEntry[s][i], account, asset) THEN bookEntry[s][i]
                ELSE res[i]]

\* getNewestVersion of offer i through scope s of the book, 0 the root
RECURSIVE newestOffer(_, _)
newestOffer(s, i) ==
    IF s = 0 THEN offers[i]
    ELSE IF bookEntry[s][i] # NoRow THEN bookEntry[s][i]
    ELSE newestOffer(s - 1, i)

\* mEntry of scope p after its child committed entry v for offer i
bookCommitChildEntry(p, i, v) ==
    IF v = NoRow THEN bookEntry[p][i]
    ELSE IF IsOffer(v) THEN v
    ELSE IF ~IsOffer(newestOffer(p - 1, i)) THEN NoRow
    ELSE Erased

\* ================================================== inflation winners
\* balances and votes are counted in units of 5 * 10^8 stroops
BalanceUnit == 5 * 10^8

\* int64_t const MIN_VOTES_TO_INCLUDE = 1000000000
MIN_VOTES_TO_INCLUDE == 1000000000 \div BalanceUnit

\* the accounts that vote, and the accounts voted for in the order of
\* their KeyUtils::toStrKey strings
VoterSeq == <<"v1", "v2", "v3">>
Voters == {VoterSeq[i] : i \in 1..Len(VoterSeq)}
DestSeq == <<"A", "B", "C">>
Dests == {DestSeq[i] : i \in 1..Len(DestSeq)}
NoDest == "-"
strKeyRank(d) == CHOOSE i \in 1..Len(DestSeq) : DestSeq[i] = d

\* the arguments getInflationWinners is asked with: 0..MaxWinners winners
\* of at least 1..MaxMinVotes votes
MaxWinners == 2
MaxMinVotes == 4

\* the handle objects of a client and the implementation objects made for them
MaxHandles == 3
MaxImpls == 4

\* the calls of expand for one node the model of rebuild follows
MaxExpands == 2

\* the entries of each kind in a LedgerDelta
MaxDeltaSize == 3

\* an account entry as far as inflation goes
Account(balance, dest) == [balance |-> balance, inflationDest |-> dest]

\* no row of the accounts table, no mapping of a scope
NoAccount == Account(0 - 1, NoDest)

\* a key a scope maps to null
ErasedAccount == Account(0 - 2, NoDest)

IsAccount(a) == a.balance >= 0

\* the versions a scope gives an account: a vote for C, a vote for A, a
\* balance too small to count, and no inflation destination
AccountVersions ==
    {Account(3, "C"), Account(2, "A"), Account(1, "B"), Account(3, NoDest)}

\* the tables the votes start from: the first voter votes for the first
\* destination, the others are absent or vote for theirs, all with balances
\* that count
InitialAccounts ==
    {[v \in Voters |-> IF v = VoterSeq[1] THEN Account(b, DestSeq[1])
                       ELSE IF v = VoterSeq[2] THEN second ELSE third] :
        b \in {2, 3},
        second \in {NoAccount, Account(3, DestSeq[2])},
        third \in {NoAccount, Account(2, DestSeq[3])}}

NoAccountEntries == [v \in Voters |-> NoAccount]

VARIABLES
    accounts,       \* the accounts table: voter -> its row, NoAccount when none
    voteEntry,      \* mEntry of each scope over the accounts: voter -> entry
    voteDepth,      \* how many scopes are open, each the child of the one below
    voteEdits,      \* how many changes the scopes made
    votesLast       \* the last query of the winners and how it ended, "-" when
                    \* a change came after it

voteVars == <<accounts, voteEntry, voteDepth, voteEdits, votesLast>>

VotesCall(op, ok) == [op |-> op, ok |-> ok]

InflationWinner(id, votes) == [accountID |-> id, votes |-> votes]

\* what a call that did not return leaves in place of its winners
Crashed == <<InflationWinner("crash", 0)>>

\* acc.inflationDest && acc.balance >= MIN_VOTES_TO_INCLUDE, for dest d
votesFor(acc, d) ==
    IF IsAccount(acc) /\ acc.inflationDest = d /\ acc.balance >= MIN_VOTES_TO_INCLUDE
    THEN acc.balance ELSE 0

\* the sum of f over the voters from the i-th on
RECURSIVE sumFrom(_, _)
sumFrom(f, i) == IF i > Len(VoterSeq) THEN 0 ELSE f[VoterSeq[i]] + sumFrom(f, i + 1)

\* the order of the winners: descending votes, then descending strkey
winnerBefore(lhs, rhs) ==
    IF lhs.votes = rhs.votes
    THEN strKeyRank(lhs.accountID) > strKeyRank(rhs.accountID)
    ELSE lhs.votes > rhs.votes

RECURSIVE sortWinners(_)
sortWinners(S) ==
    IF S = {} THEN <<>>
    ELSE LET w == CHOOSE x \in S : \A y \in S \ {x} : winnerBefore(x, y)
         IN <<w>> \o sortWinners(S \ {w})

\* winners.resize(maxWinners) when there are more
resized(winners, maxWinners) ==
    IF Len(winners) > maxWinners THEN SubSeq(winners, 1, maxWinners) ELSE winners

\* LedgerStateRoot::Impl::loadInflationWinners(maxWinners, minBalance): the
\* votes summed by destination over the accounts that count, those of at
\* least minBalance votes, best first, at most maxWinners of them
loadInflationWinners(maxWinners, minBalance) ==
    LET votes == [d \in Dests |-> sumFrom([v \in Voters |-> votesFor(accounts[v], d)], 1)]
        voted == {d \in Dests : \E v \in Voters : votesFor(accounts[v], d) > 0}
    IN resized(sortWinners({InflationWinner(d, votes[d]) :
                               d \in {x \in voted : votes[x] >= minBalance}}),
               maxWinners)

\* getNewestVersion of a voter's account through scope s, 0 the root
RECURSIVE newestAccount(_, _)
newestAccount(s, v) ==
    IF s = 0 THEN accounts[v]
    ELSE IF voteEntry[s][v] # NoAccount THEN voteEntry[s][v]
    ELSE newestAccount(s - 1, v)

\* the keys of the map LedgerState::Impl::getDeltaVotes returns
deltaDests(s) ==
    {d \in Dests : \E v \in Voters :
        /\ voteEntry[s][v] # NoAccount
        /\ \/ votesFor(voteEntry[s][v], d) > 0
           \/ votesFor(newestAccount(s - 1, v), d) > 0}

\* LedgerState::Impl::getDeltaVotes: destination -> change of its votes
getDeltaVotes(s) ==
    [d \in Dests |->
        sumFrom([v \in Voters |->
                    IF voteEntry[s][v] = NoAccount THEN 0
                    ELSE votesFor(voteEntry[s][v], d)
                         - votesFor(newestAccount(s - 1, v), d)], 1)]

\* LedgerState::Impl::getTotalVotes: the keys of the map and their totals
getTotalVotes(parentWinners, deltaVotes, deltaKeys, minVotes) ==
    LET won == {parentWinners[i].accountID : i \in 1..Len(parentWinners)}
        votesOf(d) == (CHOOSE w \in {parentWinners[j] : j \in 1..Len(parentWinners)} :
                          w.accountID = d).votes
        added == {d \in deltaKeys : d \in won \/ deltaVotes[d] >= minVotes}
    IN [keys |-> won \cup added,
        votes |-> [d \in Dests |-> (IF d \in won THEN votesOf(d) ELSE 0)
                                   + (IF d \in added THEN deltaVotes[d] ELSE 0)]]

\* LedgerState::Impl::enumerateInflationWinners
enumerateInflationWinners(totalVotes, maxWinners, minVotes) ==
    resized(sortWinners({InflationWinner(d, totalVotes.votes[d]) :
                            d \in {x \in totalVotes.keys : totalVotes.votes[x] >= minVotes}}),
            maxWinners)

\* what reading max_element(...)->second of an empty map can give: the call
\* does not return, or some value is read
ReadsOfEnd ==
    {[crash |-> TRUE, value |-> 0]} \cup {[crash |-> FALSE, value |-> x] : x \in 0..MaxMinVotes}

\* the greatest change of a non-empty map of changes
maxElement(deltaVotes, keys) ==
    deltaVotes[CHOOSE d \in keys : \A e \in keys : deltaVotes[e] <= deltaVotes[d]]

\* LedgerState::Impl::getInflationWinners on scope s, 0 the root: every
\* outcome the call can have, Crashed or the winners returned
RECURSIVE getInflationWinners(_, _, _)
getInflationWinners(s, maxWinners, minVotes) ==
    IF s = 0 THEN {loadInflationWinners(maxWinners, minVotes)}
    ELSE LET deltaVotes == getDeltaVotes(s)
             keys == deltaDests(s)
             numChanged == Cardinality({d \in keys : deltaVotes[d] # 0})
             reads == IF keys = {} THEN ReadsOfEnd
                      ELSE {[crash |-> FALSE, value |-> maxElement(deltaVotes, keys)]}
         IN UNION {IF read.crash THEN {Crashed}
                   ELSE LET maxIncrease == IF read.value > 0 THEN read.value ELSE 0
                            newMinVotes == IF minVotes - maxIncrease > 0
                                           THEN minVotes - maxIncrease ELSE 0
                        IN {IF parentWinners = Crashed THEN Crashed
                            ELSE enumerateInflationWinners(
                                     getTotalVotes(parentWinners, deltaVotes, keys, minVotes),
                                     maxWinners, minVotes) :
                               parentWinners \in getInflationWinners(
                                   s - 1, maxWinners + numChanged, newMinVotes)} :
                   read \in reads}

\* mEntry of scope p after its child committed entry a for voter v
voteCommitChildEntry(p, v, a) ==
    IF a = NoAccount THEN voteEntry[p][v]
    ELSE IF IsAccount(a) THEN a
    ELSE IF ~IsAccount(newestAccount(p - 1, v)) THEN NoAccount
    ELSE ErasedAccount

\* ---------------------------------------------------------------------
\* Handles: LedgerStateEntry, ConstLedgerStateEntry and LedgerStateHeader
\* objects over one open scope.  A handle holds a weak reference to an
\* implementation object; the scope's mActive (mActiveHeader for the header)
\* holds the only strong reference, so a handle is usable exactly while its
\* implementation object is still registered.

\* the keys handles are loaded for; the header is registered apart
HandleKeys == {"k1", "k2"}
HeaderKey == "header"
Registered == HandleKeys \cup {HeaderKey}

\* the handle objects of the client and the kinds of handle
Handles == 1..MaxHandles
HandleKinds == {"entry", "const", "header"}

VARIABLES
    hKind,      \* the type of each handle object
    hImpl,      \* mImpl of each handle: an implementation object, 0 when null
    hActive,    \* mActive and mActiveHeader: the object registered for a key, 0 when none
    hNext,      \* the objects made so far
    hLast       \* the last call on a handle or on the scope

handleVars == <<hKind, hImpl, hActive, hNext, hLast>>

HandleCall(op, a, b, k, ok) == [op |-> op, a |-> a, b |-> b, k |-> k, ok |-> ok]

\* mImpl.lock(): the object a handle refers to, 0 when null or expired
lock(impl, active) ==
    IF impl # 0 /\ \E k \in Registered : active[k] = impl THEN impl ELSE 0

\* the key an implementation object was made for
keyOf(impl, active) == CHOOSE k \in Registered : active[k] = impl

\* LedgerState::Impl::deactivate, deactivateHeader: drop the registration
deactivated(impl, active) ==
    [k \in Registered |-> IF active[k] = impl THEN 0 ELSE active[k]]

\* the destructor of a handle holding impl
destroyed(impl, active) ==
    IF lock(impl, active) # 0 THEN deactivated(impl, active) ELSE active

\* operator=(LedgerStateEntry&&) and operator=(ConstLedgerStateEntry&&):
\* unless other is this object, a copy of other takes this object's
\* reference by swap and releases it when it goes out of scope
entryMoveAssignedWithoutSelfCheck(a, b, impls, active) ==
    LET otherCopy == lock(impls[b], active)
        swapped == [impls EXCEPT ![a] = otherCopy]
        reset == [swapped EXCEPT ![b] = 0]
    IN [impls |-> reset, active |-> destroyed(impls[a], active)]

entryMoveAssigned(a, b, impls, active) ==
    IF a # b
    THEN LET otherCopy == lock(impls[b], active)
             swapped == [impls EXCEPT ![a] = otherCopy]
             reset == [swapped EXCEPT ![b] = 0]
         IN [impls |-> reset, active |-> destroyed(impls[a], active)]
    ELSE [impls |-> impls, active |-> active]

\* operator=(LedgerStateHeader&&): unless other is this object, release
\* this object's reference, then take other's
headerMoveAssigned(a, b, impls, active) ==
    IF a = b THEN [impls |-> impls, active |-> active]
    ELSE LET moved == [impls EXCEPT ![a] = impls[b]]
         IN [impls |-> [moved EXCEPT ![b] = 0],
             active |-> destroyed(impls[a], active)]

\* h1 = std::move(h2) for two handle objects of one type
MoveAssign(a, b) ==
    /\ hKind[a] = hKind[b]
    /\ LET after == IF hKind[a] = "header"
                    THEN headerMoveAssigned(a, b, hImpl, hActive)
                    ELSE entryMoveAssigned(a, b, hImpl, hActive)
       IN /\ hImpl' = after.impls
          /\ hActive' = after.active
    /\ hLast' = HandleCall("assign", a, b, "-", TRUE)
    /\ UNCHANGED <<hKind, hNext>>

\* a handle object a, null so far, is constructed from load(k),
\* loadWithoutRecord(k) or loadHeader(): the call raises when the key (the
\* header) is active, else it registers a new implementation object
HandleLoad(a, k) ==
    /\ hImpl[a] = 0
    /\ (hKind[a] = "header") <=> (k = HeaderKey)
    /\ IF hActive[k] # 0
       THEN /\ hLast' = HandleCall("load", a, a, k, FALSE)
            /\ UNCHANGED <<hKind, hImpl, hActive, hNext>>
       ELSE /\ hNext < MaxImpls
            /\ hNext' = hNext + 1
            /\ hActive' = [hActive EXCEPT ![k] = hNext + 1]
            /\ hImpl' = [hImpl EXCEPT ![a] = hNext + 1]
            /\ hLast' = HandleCall("load", a, a, k, TRUE)
            /\ UNCHANGED hKind

\* a handle object goes out of scope
HandleDrop(a) ==
    /\ hImpl[a] # 0
    /\ hActive' = destroyed(hImpl[a], hActive)
    /\ hImpl' = [hImpl EXCEPT ![a] = 0]
    /\ hLast' = HandleCall("drop", a, a, "-", TRUE)
    /\ UNCHANGED <<hKind, hNext>>

\* a child is attached to the scope and rolled back: every registration
\* is dropped, the handles that were usable are expired
HandleAddChild ==
    /\ \E k \in Registered : hActive[k] # 0
    /\ hActive' = [k \in Registered |-> 0]
    /\ hLast' = HandleCall("addChild", 1, 1, "-", TRUE)
    /\ UNCHANGED <<hKind, hImpl, hNext>>

\* handle objects of the given kinds, all null, nothing registered
HandlesInit(kinds) ==
    /\ hKind \in kinds
    /\ hImpl = [h \in Handles |-> 0]
    /\ hActive = [k \in Registered |-> 0]
    /\ hNext = 0
    /\ hLast = HandleCall("-", 1, 1, "-", TRUE)

\* ---------------------------------------------------------------------
\* ManageOfferOpFrame::doApply(app, lsOuter): one call, step by step. The
\* scopes are lsOuter (1), the ls of doApply (2) and the ls of a helper
\* (3); what lies above lsOuter does not change during the call.

OuterScope == 1
OpScope == 2
HelperScope == 3
MoScopes == {OuterScope, OpScope, HelperScope}

\* a child lsOuter has before doApply is called
OtherChild == HelperScope + 1

\* the source account, the offer the operation manages, and a trust line
MoKeys == {"account", "offer", "line"}
MoNothing == [k \in MoKeys |-> Absent]

VARIABLES
    moBase,     \* the newest version of each key above lsOuter
    moEntry,    \* mEntry of each scope
    moHeader,   \* mHeader of each scope
    moChild,    \* mChild of each scope, NULL when none
    moLife,     \* "none", "live" or "ended" for each scope
    moSealed,   \* mIsSealed of lsOuter
    moArgs,     \* mManageOffer.offerID and amount, whether the selling asset is
                \* native, and the ledgerVersion of the header
    moPc,       \* the position of doApply
    moNew,      \* creatingNewOffer
    moResult,   \* "-" until doApply has returned "true", "false" or "raised"
    moBefore,   \* mEntry, mHeader and mChild of lsOuter when doApply was called
    moCommits   \* the commits into lsOuter so far

moVars == <<moBase, moEntry, moHeader, moChild, moLife, moSealed, moArgs, moPc,
            moNew, moResult, moBefore, moCommits>>

RECURSIVE moNewest(_, _)
\* LedgerState::Impl::getNewestVersion of scope s, 0 for what is above lsOuter
moNewest(s, k) ==
    IF s = 0 THEN moBase[k]
    ELSE IF moEntry[s][k] # Absent THEN moEntry[s][k]
    ELSE moNewest(s - 1, k)

\* an entry after a change of its balance, liabilities or sub-entry count
changed(e) == Entry((e.val % MaxVal) + 1, e.lm)

\* LedgerState ls(parent): the constructor attaches the new scope
moConstructed(s) ==
    /\ moLife' = [moLife EXCEPT ![s] = "live"]
    /\ moChild' = [moChild EXCEPT ![s - 1] = s]
    /\ moHeader' = [moHeader EXCEPT ![s] = moHeader[s - 1]]

\* load(k) on scope s: the newest version is recorded in the scope
moLoaded(entries, s, k) ==
    IF IsEntry(moNewest(s, k)) THEN [entries EXCEPT ![s][k] = moNewest(s, k)]
    ELSE entries

\* a helper's scope that commits when the helper returns
moHelperCommitted ==
    /\ moEntry' = [moEntry EXCEPT ![OpScope] = [k \in MoKeys |->
                        IF moEntry[HelperScope][k] # Absent
                        THEN moEntry[HelperScope][k] ELSE moEntry[OpScope][k]],
                                  ![HelperScope] = MoNothing]
    /\ moHeader' = [moHeader EXCEPT ![OpScope] = moHeader[HelperScope]]
    /\ moChild' = [moChild EXCEPT ![OpScope] = NULL]
    /\ moLife' = [moLife EXCEPT ![HelperScope] = "ended"]

\* ~LedgerState of a helper's ls, which never commits: rollback
moHelperRolledBack ==
    /\ moEntry' = [moEntry EXCEPT ![HelperScope] = MoNothing]
    /\ moHeader' = moHeader
    /\ moChild' = [moChild EXCEPT ![OpScope] = NULL]
    /\ moLife' = [moLife EXCEPT ![HelperScope] = "ended"]

\* doApply: LedgerState ls(lsOuter); addChild throws when lsOuter is sealed
\* or has a child
MoConstruct ==
    /\ moPc = "start"
    /\ IF moSealed \/ moChild[OuterScope] # NULL
       THEN /\ moPc' = "done" /\ moResult' = "raised"
            /\ UNCHANGED <<moEntry, moHeader, moChild, moLife>>
       ELSE /\ moConstructed(OpScope)
            /\ moPc' = "checkOfferValid"
            /\ UNCHANGED <<moEntry, moResult>>
    /\ UNCHANGED <<moBase, moSealed, moArgs, moNew, moBefore, moCommits>>

\* checkOfferValid up to its return: its ls over the ls of doApply, and
\* unless the amount is 0 the loads of the trust lines and issuers
MoCheckOfferValid ==
    /\ moPc = "checkOfferValid"
    /\ moConstructed(HelperScope)
    /\ moEntry' = IF moArgs.amount = 0 THEN moEntry
                  ELSE moLoaded(moEntry, HelperScope, "line")
    /\ moPc' = "checked"
    /\ UNCHANGED <<moBase, moSealed, moArgs, moNew, moResult, moBefore, moCommits>>

\* checkOfferValid returns valid: its ls goes out of scope
MoCheckOfferValidReturns(valid) ==
    /\ moPc = "checked"
    /\ moArgs.amount = 0 => valid
    /\ moHelperRolledBack
    /\ moPc' = IF valid THEN "offer" ELSE "returnFalse"
    /\ UNCHANGED <<moBase, moSealed, moArgs, moNew, moResult, moBefore, moCommits>>

\* doApply: an old offer is loaded, from version 10 on its liabilities are
\* released, and it is erased; a new offer needs nothing yet
MoOldOrNewOffer ==
    /\ moPc = "offer"
    /\ IF moArgs.offerID # 0
       THEN IF ~IsEntry(moNewest(OpScope, "offer"))
            THEN moPc' = "returnFalse" /\ UNCHANGED <<moEntry, moNew>>
            ELSE IF moArgs.ledgerVersion >= 10 /\ ~IsEntry(moNewest(OpScope, "account"))
            THEN /\ moEntry' = moLoaded(moEntry, OpScope, "offer")
                 /\ moPc' = "unwind"
                 /\ UNCHANGED moNew
            ELSE /\ moEntry' = [moEntry EXCEPT
                        ![OpScope]["account"] =
                            IF moArgs.ledgerVersion >= 10
                            THEN changed(moNewest(OpScope, "account")) ELSE @,
                        ![OpScope]["offer"] =
                            IF IsEntry(moNewest(OuterScope, "offer")) THEN None ELSE Absent]
                 /\ moNew' = FALSE
                 /\ moPc' = IF moArgs.amount > 0 THEN "compute" ELSE "finish"
       ELSE /\ moNew' = TRUE
            /\ moPc' = IF moArgs.amount > 0 THEN "compute" ELSE "finish"
            /\ UNCHANGED moEntry
    /\ UNCHANGED <<moBase, moHeader, moChild, moLife, moSealed, moArgs, moResult,
                   moBefore, moCommits>>

\* computeOfferExchangeParameters reserves for the offer to come
reserves ==
    /\ moNew
    /\ moArgs.ledgerVersion >= 10 \/ (moArgs.native /\ moArgs.ledgerVersion > 8)

\* computeOfferExchangeParameters up to its return: its ls, the source
\* account loaded and, for a new offer, its sub-entry count raised by one
MoComputeOfferExchangeParameters ==
    /\ moPc = "compute"
    /\ moConstructed(HelperScope)
    /\ IF ~IsEntry(moNewest(OpScope, "account"))
       THEN moPc' = "unwind" /\ UNCHANGED moEntry
       ELSE /\ moEntry' = moLoaded(
                   [moEntry EXCEPT ![HelperScope]["account"] =
                        IF reserves THEN changed(moNewest(OpScope, "account"))
                        ELSE moNewest(OpScope, "account")],
                   HelperScope, "line")
            /\ moPc' = "computed"
    /\ UNCHANGED <<moBase, moSealed, moArgs, moNew, moResult, moBefore, moCommits>>

\* computeOfferExchangeParameters returns ok: its ls goes out of scope
MoComputeReturns(ok) ==
    /\ moPc = "computed"
    /\ moHelperRolledBack
    /\ moPc' = IF ok THEN "convert" ELSE "returnFalse"
    /\ UNCHANGED <<moBase, moSealed, moArgs, moNew, moResult, moBefore, moCommits>>

\* doApply: convertWithOffers on ls crosses offers or not and the balances
\* of the source account are settled; crossing an own offer returns false
MoConvertWithOffers(crossed, crossSelf) ==
    /\ moPc = "convert"
    /\ LET taken == IF crossed THEN [moEntry EXCEPT ![OpScope]["line"] =
                                        IF IsEntry(moNewest(OpScope, "line"))
                                        THEN changed(moNewest(OpScope, "line"))
                                        ELSE Entry(1, NewEntryLm)]
                    ELSE moEntry
       IN IF crossSelf
          THEN moEntry' = taken /\ moPc' = "returnFalse"
          ELSE IF crossed /\ ~IsEntry(moNewest(OpScope, "account"))
          THEN moEntry' = taken /\ moPc' = "unwind"
          ELSE /\ moEntry' = IF crossed
                             THEN [taken EXCEPT ![OpScope]["account"] =
                                      changed(moNewest(OpScope, "account"))]
                             ELSE taken
               /\ moPc' = "finish"
    /\ UNCHANGED <<moBase, moHeader, moChild, moLife, moSealed, moArgs, moNew,
                   moResult, moBefore, moCommits>>

\* doApply: the offer that is left is created, with a new id and one more
\* sub-entry when it is new, and from version 10 on its liabilities are
\* acquired; when nothing is left an old offer gives its sub-entry back
MoLeaveOffer(left, lowReserve) ==
    LET account == moNewest(OpScope, "account")
        counted == IF moNew THEN [moEntry EXCEPT ![OpScope]["account"] = changed(account)]
                   ELSE moEntry
        header == IF moNew THEN [moHeader EXCEPT ![OpScope] = (@ % MaxSeq) + 1]
                  ELSE moHeader
        created == [counted EXCEPT ![OpScope]["offer"] = Entry(MaxVal, NewEntryLm)]
    IN /\ moPc = "finish"
       /\ moArgs.amount = 0 => ~left
       /\ lowReserve => left /\ moNew
       /\ IF left
          THEN IF moNew /\ ~IsEntry(account)
               THEN moPc' = "unwind" /\ UNCHANGED <<moEntry, moHeader>>
               ELSE IF lowReserve
               THEN /\ moEntry' = moLoaded(moEntry, OpScope, "account")
                    /\ moPc' = "returnFalse"
                    /\ UNCHANGED moHeader
               ELSE IF IsEntry(moNewest(OpScope, "offer"))
               THEN moEntry' = counted /\ moHeader' = header /\ moPc' = "unwind"
               ELSE IF moArgs.ledgerVersion >= 10 /\ ~IsEntry(account)
               THEN moEntry' = created /\ moHeader' = header /\ moPc' = "unwind"
               ELSE /\ moEntry' = IF moArgs.ledgerVersion >= 10
                                  THEN [created EXCEPT ![OpScope]["account"] =
                                           changed(created[OpScope]["account"])]
                                  ELSE created
                    /\ moHeader' = header
                    /\ moPc' = "commit"
          ELSE IF moNew
               THEN moPc' = "commit" /\ UNCHANGED <<moEntry, moHeader>>
               ELSE IF ~IsEntry(account)
               THEN moPc' = "unwind" /\ UNCHANGED <<moEntry, moHeader>>
               ELSE /\ moEntry' = [moEntry EXCEPT ![OpScope]["account"] = changed(account)]
                    /\ moPc' = "commit"
                    /\ UNCHANGED moHeader
       /\ UNCHANGED <<moBase, moChild, moLife, moSealed, moArgs, moNew, moResult,
                      moBefore, moCommits>>

\* LedgerState::Impl::commitChild for the entry v of key k handed to lsOuter
moCommitChildEntry(k, v) ==
    IF v = Absent THEN moEntry[OuterScope][k]
    ELSE IF IsEntry(v) THEN Entry(v.val, moHeader[OpScope])
    ELSE IF ~IsEntry(moBase[k]) THEN Absent
    ELSE None

\* doApply: ls.commit(), return true
MoCommit ==
    /\ moPc = "commit"
    /\ moEntry' = [moEntry EXCEPT
            ![OuterScope] = [k \in MoKeys |-> moCommitChildEntry(k, moEntry[OpScope][k])],
            ![OpScope] = MoNothing]
    /\ moHeader' = [moHeader EXCEPT ![OuterScope] = moHeader[OpScope]]
    /\ moChild' = [moChild EXCEPT ![OuterScope] = NULL]
    /\ moLife' = [moLife EXCEPT ![OpScope] = "ended"]
    /\ moCommits' = moCommits + 1
    /\ moPc' = "done" /\ moResult' = "true"
    /\ UNCHANGED <<moBase, moSealed, moArgs, moNew, moBefore>>

\* ~LedgerState of the ls of doApply when it has not committed: rollback
moRolledBack(res) ==
    /\ moEntry' = [moEntry EXCEPT ![OpScope] = MoNothing, ![HelperScope] = MoNothing]
    /\ moChild' = [moChild EXCEPT ![OuterScope] = NULL, ![OpScope] = NULL]
    /\ moLife' = [s \in MoScopes |-> IF s # OuterScope /\ moLife[s] = "live"
                                     THEN "ended" ELSE moLife[s]]
    /\ moPc' = "done" /\ moResult' = res
    /\ UNCHANGED <<moBase, moHeader, moSealed, moArgs, moNew, moBefore, moCommits>>

\* doApply returns false: ls goes out of scope
MoReturnFalse == moPc = "returnFalse" /\ moRolledBack("false")

\* a call made by doApply or by a helper throws
MoThrows ==
    /\ moPc \in {"checkOfferValid", "checked", "offer", "compute", "computed",
                 "convert", "finish", "commit"}
    /\ moPc' = "unwind"
    /\ UNCHANGED <<moBase, moEntry, moHeader, moChild, moLife, moSealed, moArgs,
                   moNew, moResult, moBefore, moCommits>>

\* the exception leaves doApply: the helper's ls, then ls go out of scope
MoUnwind == moPc = "unwind" /\ moRolledBack("raised")

\* a call of doApply with the given arguments on an lsOuter that has the
\* given entries, is sealed or not and has a child of its own or not
MoInit(bases, outers, args, sealed, children) ==
    /\ moBase \in bases
    /\ moEntry \in {[s \in MoScopes |-> IF s = OuterScope THEN o ELSE MoNothing] : o \in outers}
    /\ moHeader = [s \in 0..HelperScope |-> 1]
    /\ moChild \in {[s \in MoScopes |-> IF s = OuterScope THEN c ELSE NULL] : c \in children}
    /\ moLife = [s \in MoScopes |-> IF s = OuterScope THEN "live" ELSE "none"]
    /\ moSealed \in sealed
    /\ moArgs \in args
    /\ moPc = "start"
    /\ moNew = FALSE
    /\ moResult = "-"
    /\ moBefore = [entries |-> moEntry[OuterScope], header |-> moHeader[OuterScope],
                   child |-> moChild[OuterScope]]
    /\ moCommits = 0

MoIdle ==
    MoInit({[k \in MoKeys |-> None]}, {MoNothing},
           {[offerID |-> 0, amount |-> 0, native |-> TRUE, ledgerVersion |-> 10]},
           {FALSE}, {NULL})

\* ---------------------------------------------------------------------
\* QuorumTracker::rebuild, one iteration of its loop at a time

VARIABLES
    rbLookup,   \* the lookup rebuild was called with
    rbBacklog,  \* the deque of nodes still to visit
    rbPc,       \* "start", "loop", "done" or "thrown"
    rbExpands   \* how often expand was called for each node

rbVars == <<rbLookup, rbBacklog, rbPc, rbExpands>>

\* a rebuild that looks at the lookup only, not at the marker in the map
unvisitedOrNot(M, n, lookup) == lookup[n] # NoQSet

\* rebuild: the node at the front of the backlog has no descriptor yet and
\* the lookup knows one
unvisited(M, n, lookup) == M[n].mQSet = NoQSet /\ lookup[n] # NoQSet

\* rebuild: mQuorum.clear(), the local node at distance 0 in the map and in
\* the backlog
RebuildStart ==
    /\ rbPc = "start"
    /\ mQuorum' = [EmptyQuorum EXCEPT ![mLocalNodeID] = NodeInfo(NoQSet, 0)]
    /\ rbBacklog' = <<mLocalNodeID>>
    /\ rbPc' = "loop"
    /\ UNCHANGED <<rbLookup, rbExpands, qState, qLast>>

\* rebuild: one iteration of while (!backlog.empty()); the count of expand
\* calls per node is capped at MaxExpands
RebuildVisit ==
    /\ rbPc = "loop"
    /\ rbBacklog # <<>>
    /\ LET n == Head(rbBacklog)
       IN IF unvisited(mQuorum, n, rbLookup)
          THEN LET later == enqueue(rbBacklog, forAllNodes(rbLookup[n]))
                   r == expand(mQuorum, n, rbLookup[n])
               IN /\ rbExpands[n] < MaxExpands
                  /\ rbExpands' = [rbExpands EXCEPT ![n] = @ + 1]
                  /\ mQuorum' = r.map
                  /\ IF r.res THEN rbBacklog' = Tail(later) /\ rbPc' = "loop"
                     ELSE rbBacklog' = later /\ rbPc' = "thrown"
          ELSE /\ rbBacklog' = Tail(rbBacklog)
               /\ UNCHANGED <<mQuorum, rbPc, rbExpands>>
    /\ UNCHANGED <<rbLookup, qState, qLast>>

\* rebuild: the backlog is empty, the function returns
RebuildReturns ==
    /\ rbPc = "loop"
    /\ rbBacklog = <<>>
    /\ rbPc' = "done"
    /\ UNCHANGED <<mQuorum, rbLookup, rbBacklog, rbExpands, qState, qLast>>

\* a call of rebuild with one of the given lookups
RebuildInit(lookups) ==
    /\ rbLookup \in lookups
    /\ rbBacklog = <<>>
    /\ rbPc = "start"
    /\ rbExpands = [n \in Nodes |-> 0]

RebuildIdle == RebuildInit({[n \in Nodes |-> NoQSet]})

\* ---------------------------------------------------------------------
\* LedgerDelta::MetaHelper: the iteration over mNew, mMod and mDelete. A
\* position in a container of n elements is 0..n, n being its end(); the
\* element at position i is the (i + 1)-th.

VARIABLES
    ldSize,     \* the sizes of mNew, mMod and mDelete
    it,         \* the ValueIterator: mState, mIter, mDelIter
    itPc,       \* "begin", "deref", "incr", "done" or "crashed"
    itYield     \* what operator* has returned so far

deltaVars == <<ldSize, it, itPc, itYield>>

\* LedgerDelta::MetaHelper::size
size(sz) == sz.mNew + sz.mMod + sz.mDelete

\* an item operator* returns: a live or dead entry, taken from a container
Item(type, from, i) == [type |-> type, from |-> from, i |-> i]

\* what a read through an end() iterator can give
Garbage == Item("LIVEENTRY", "none", 0)

\* operator* did not return
NoReturn == Item("-", "none", 0)

\* ValueIterator(me, true)
beginIterator == [mState |-> "newNodes", mIter |-> 0, mDelIter |-> 0]

\* operator++, case delNodes
incrementDel(sz, i) ==
    IF i.mDelIter # sz.mDelete
    THEN IF i.mDelIter + 1 # sz.mDelete
         THEN [i EXCEPT !.mDelIter = @ + 1]
         ELSE [i EXCEPT !.mDelIter = @ + 1, !.mState = "done"]
    ELSE [i EXCEPT !.mState = "done"]

\* operator++, case modNodes, falling through to delNodes
incrementMod(sz, i) ==
    IF i.mIter # sz.mMod /\ i.mIter + 1 # sz.mMod
    THEN [i EXCEPT !.mIter = @ + 1]
    ELSE incrementDel(sz, [mState |-> "delNodes",
                           mIter |-> IF i.mIter # sz.mMod THEN i.mIter + 1 ELSE i.mIter,
                           mDelIter |-> 0])

\* operator++, case newNodes, falling through to modNodes
incrementNew(sz, i) ==
    IF i.mIter # sz.mNew /\ i.mIter + 1 # sz.mNew
    THEN [i EXCEPT !.mIter = @ + 1]
    ELSE incrementMod(sz, [i EXCEPT !.mIter = 0, !.mState = "modNodes"])

\* ValueIterator::operator++
increment(sz, i) ==
    CASE i.mState = "newNodes" -> incrementNew(sz, i)
      [] i.mState = "modNodes" -> incrementMod(sz, i)
      [] i.mState = "delNodes" -> incrementDel(sz, i)
      [] OTHER -> i

\* ValueIterator::operator*: the items it can return; reading through the
\* end() of a container is undefined, it returns anything or does not return
dereference(sz, i) ==
    CASE i.mState = "newNodes" ->
            IF i.mIter < sz.mNew THEN {Item("LIVEENTRY", "new", i.mIter + 1)}
            ELSE {Garbage, NoReturn}
      [] i.mState = "modNodes" ->
            IF i.mIter < sz.mMod THEN {Item("LIVEENTRY", "mod", i.mIter + 1)}
            ELSE {Garbage, NoReturn}
      [] i.mState = "delNodes" ->
            IF i.mDelIter < sz.mDelete THEN {Item("DEADENTRY", "del", i.mDelIter + 1)}
            ELSE {Garbage, NoReturn}
      [] OTHER -> {NoReturn}

\* it = begin(); it != end() holds, as end() is in state done
DeltaBegin ==
    /\ itPc = "begin"
    /\ it' = beginIterator
    /\ itPc' = "deref"
    /\ UNCHANGED <<ldSize, itYield>>

\* *it
DeltaDereference ==
    /\ itPc = "deref"
    /\ \E item \in dereference(ldSize, it) :
          IF item = NoReturn
          THEN itPc' = "crashed" /\ UNCHANGED itYield
          ELSE itPc' = "incr" /\ itYield' = Append(itYield, item)
    /\ UNCHANGED <<ldSize, it>>

\* ++it; it != end()
DeltaIncrement ==
    /\ itPc = "incr"
    /\ it' = increment(ldSize, it)
    /\ itPc' = IF it'.mState = "done" THEN "done" ELSE "deref"
    /\ UNCHANGED <<ldSize, itYield>>

\* a delta of one of the given sizes, not yet iterated
DeltaInit(sizes) ==
    /\ ldSize \in sizes
    /\ it = beginIterator
    /\ itPc = "begin"
    /\ itYield = <<>>

DeltaIdle == DeltaInit({[mNew |-> 0, mMod |-> 0, mDelete |-> 0]})

lateVars == <<handleVars, moVars, rbVars, deltaVars>>

\* the parts of the model added last, left alone
LateIdle == HandlesInit({[h \in Handles |-> "entry"]}) /\ MoIdle /\ RebuildIdle /\ DeltaIdle

obVars == <<priceVars, bookVars, voteVars, lateVars>>

\* no envelope: what pop hands back when it returns false
NoEnv == Env(0, "-", NoTxSet)

VARIABLES
    status,     \* what the last call on the pipeline returned
    popped      \* the envelope the last call handed back, NoEnv when none

retVars == <<status, popped>>

vars == <<lsVars, peVars, qtVars, retVars, obVars>>

\* a call on the pipeline that changes nothing
Returns(st) == status' = st /\ popped' = NoEnv /\ UNCHANGED <<peVars, lsVars, qtVars, obVars>>

\* PendingEnvelopes::recvSCPEnvelope
RecvSCPEnvelope(e) ==
    IF e.slotIndex < minSlot THEN Returns("INVALID")
    ELSE IF isProcessed(PE, e) THEN Returns("PROCESSED")
    ELSE IF isDiscarded(PE, e) THEN Returns("DISCARDED")
    ELSE IF e.qset \in mKnownQSet /\ ~isQuorumSetSane(e.qset)
    THEN /\ SetPE(discardSCPEnvelope(discardSCPEnvelopesWithQSet(PE, e.qset), e))
         /\ popped' = NoEnv
         /\ status' = "DISCARDED"
         /\ UNCHANGED <<minSlot, lsVars, qtVars, obVars>>
    ELSE IF isFetching(PE, e) THEN Returns("FETCHING")
    ELSE IF isReady(PE, e) THEN Returns("READY")
    ELSE /\ SetPE(fetchOrReady(PE, e))
         /\ popped' = NoEnv
         /\ status' = IF isFullyFetched(PE, e) THEN "READY" ELSE "FETCHING"
         /\ UNCHANGED <<minSlot, lsVars, qtVars, obVars>>

\* PendingEnvelopes::addSCPQuorumSet, called by the herder
AddSCPQuorumSet(h) ==
    /\ SetPE(addSCPQuorumSet(PE, h))
    /\ popped' = NoEnv
    /\ status' = "-"
    /\ UNCHANGED <<minSlot, lsVars, qtVars, obVars>>

\* PendingEnvelopes::recvSCPQuorumSet
RecvSCPQuorumSet(h) ==
    IF mQuorumSetFetcher[h] = {} THEN Returns("false")
    ELSE /\ SetPE(IF isQuorumSetSane(h) THEN addSCPQuorumSet(PE, h)
                  ELSE discardSCPEnvelopesWithQSet(PE, h))
         /\ popped' = NoEnv
         /\ status' = IF isQuorumSetSane(h) THEN "true" ELSE "false"
         /\ UNCHANGED <<minSlot, lsVars, qtVars, obVars>>

\* PendingEnvelopes::addTxSet, called by the herder
AddTxSet(h, lastSeenSlotIndex) ==
    /\ SetPE(addTxSet(PE, h, lastSeenSlotIndex))
    /\ popped' = NoEnv
    /\ status' = "-"
    /\ UNCHANGED <<minSlot, lsVars, qtVars, obVars>>

\* the highest slot of the envelopes waiting for txset h
lastSeenSlot(h) ==
    CHOOSE n \in Slots : /\ \E e \in mTxSetFetcher[h] : e.slotIndex = n
                         /\ \A e \in mTxSetFetcher[h] : e.slotIndex <= n

\* PendingEnvelopes::recvTxSet
RecvTxSet(h) ==
    IF mTxSetFetcher[h] = {} THEN Returns("false")
    ELSE /\ SetPE(addTxSet(PE, h, lastSeenSlot(h)))
         /\ popped' = NoEnv
         /\ status' = "true"
         /\ UNCHANGED <<minSlot, lsVars, qtVars, obVars>>

\* the last envelope of the ready queue
lastReady(q) == q[Len(q)]

\* pop: the envelope the ready queue releases next
nextReady(q) == Head(q)

\* PendingEnvelopes::pop
Pop(slot) ==
    IF mEnvelopes[slot].mReadyEnvelopes = <<>> THEN Returns("false")
    ELSE /\ mEnvelopes' = [mEnvelopes EXCEPT
                 ![slot].mReadyEnvelopes = Without(@, {nextReady(@)})]
         /\ status' = "true"
         /\ popped' = nextReady(mEnvelopes[slot].mReadyEnvelopes)
         /\ UNCHANGED <<mKnownQSet, mTxSetCache, mQuorumSetFetcher, mTxSetFetcher,
                        minSlot, lsVars, qtVars, obVars>>

\* PendingEnvelopes::envelopeProcessed, for an envelope that is ready or in
\* none of the sets
EnvelopeProcessed(e) ==
    /\ ~isFetching(PE, e)
    /\ ~isDiscarded(PE, e)
    /\ mEnvelopes' = [mEnvelopes EXCEPT
           ![e.slotIndex].mReadyEnvelopes = Without(@, {e}),
           ![e.slotIndex].mProcessedEnvelopes = @ \cup {e}]
    /\ popped' = NoEnv
    /\ status' = "-"
    /\ UNCHANGED <<mKnownQSet, mTxSetCache, mQuorumSetFetcher, mTxSetFetcher,
                   minSlot, lsVars, qtVars, obVars>>

\* PendingEnvelopes::slotClosed: the slot's fetching envelopes are dropped
\* and no longer wait for anything
SlotClosed(slot) ==
    /\ SetPE([stopFetch(PE, mEnvelopes[slot].mFetchingEnvelopes)
                 EXCEPT !.env[slot].mFetchingEnvelopes = {}])
    /\ popped' = NoEnv
    /\ status' = "-"
    /\ UNCHANGED <<minSlot, lsVars, qtVars, obVars>>

\* PendingEnvelopes::eraseBelow
EraseBelow(slotIndex) ==
    LET gone == {s \in Slots : s < slotIndex}
        dropped == UNION {mEnvelopes[s].mFetchingEnvelopes : s \in gone}
        erased == [stopFetch(PE, dropped) EXCEPT
                      !.env = [s \in Slots |-> IF s \in gone THEN NoSlotEnvelopes
                                               ELSE mEnvelopes[s]],
                      !.txc = [h \in TxSetHashes |-> IF mTxSetCache[h] < slotIndex THEN 0
                                                     ELSE mTxSetCache[h]]]
    IN /\ SetPE(DropUnrefencedQsets(erased))
       /\ minSlot' = Max(minSlot, slotIndex)
       /\ popped' = NoEnv
       /\ status' = "-"
       /\ UNCHANGED <<lsVars, qtVars, obVars>>

\* ------------------------------------------------ quorum tracker calls
\* a call of QuorumTracker::expand by the herder
Expand(id, qSet) ==
    LET r == expand(mQuorum, id, qSet)
    IN /\ mQuorum' = r.map
       /\ qLast' = QCall("expand", id, qSet, r.res)
       /\ qState' = IF r.res \/ qState = "new" THEN qState ELSE "dirty"
       /\ UNCHANGED <<lsVars, peVars, retVars, obVars>>

\* a call of QuorumTracker::rebuild; a rebuild that throws leaves the map as
\* far as it got. rebuild clears the map first, so what it builds does not
\* depend on the map it finds: the tracker is first built with any lookup,
\* and rebuilt with a lookup that knows the local node's descriptor only
Rebuild(lookup) ==
    LET r == rebuild(lookup)
    IN /\ qState = "new" \/ \A n \in Nodes \ {mLocalNodeID} : lookup[n] = NoQSet
       /\ mQuorum' = r.map
       /\ qLast' = QCall("rebuild", mLocalNodeID, NoQSet, r.res)
       /\ qState' = IF r.res THEN "clean" ELSE "dirty"
       /\ UNCHANGED <<lsVars, peVars, retVars, obVars>>

\* a call of QuorumTracker::isNodeDefinitelyInQuorum
IsNodeDefinitelyInQuorum(id) ==
    /\ qLast' = QCall("isNodeDefinitelyInQuorum", id, NoQSet,
                      isNodeDefinitelyInQuorum(mQuorum, id))
    /\ UNCHANGED <<mQuorum, qState, lsVars, peVars, retVars, obVars>>

\* ------------------------------------------------------- specification
LedgerInit(rows) ==
    /\ life = [s \in Scopes |-> "none"]
    /\ mChild = [p \in Parents |-> NULL]
    /\ mHeader = [p \in Parents |-> 1]
    /\ mEntry = [s \in Scopes |-> EmptyMap]
    /\ mActive = [s \in Scopes |-> NoHandles]
    /\ mActiveHeader = [s \in Scopes |-> FALSE]
    /\ mShouldUpdateLastModified = [s \in Scopes |-> FALSE]
    /\ mIsSealed = [s \in Scopes |-> FALSE]
    /\ mEntryCache = EmptyMap
    /\ mBestOffersCache = NoBestOffers
    /\ mTransaction = FALSE
    /\ db \in rows
    /\ dbTxn = db
    /\ updArg \in BOOLEAN
    /\ ends = [s \in Scopes |-> 0]
    /\ nAttached = [p \in Parents |-> 0]
    /\ stray = FALSE
    /\ snap = [s \in Scopes |-> NoSnap]
    /\ nCalls = 0
    /\ last = Call("init", Root, NoKey, TRUE, "-")

\* PendingEnvelopes::PendingEnvelopes
PendingInit ==
    /\ mEnvelopes = [s \in Slots |-> NoSlotEnvelopes]
    /\ mKnownQSet = {}
    /\ mTxSetCache = [h \in TxSetHashes |-> 0]
    /\ mQuorumSetFetcher = [h \in QSetHashes |-> {}]
    /\ mTxSetFetcher = [h \in TxSetHashes |-> {}]
    /\ minSlot = 0
    /\ status = "-"
    /\ popped = NoEnv

\* QuorumTracker::QuorumTracker
QuorumInit ==
    /\ mQuorum = EmptyQuorum
    /\ qState = "new"
    /\ qLast = QCall("init", mLocalNodeID, NoQSet, TRUE)

\* two offers of one asset pair, not yet compared
PriceInit ==
    /\ lhsEntry \in ComparedOffers
    /\ rhsEntry \in ComparedOffers
    /\ better = "-"

\* no comparison asked for
PriceIdle ==
    /\ lhsEntry = OfferEntry(1, 1, 1)
    /\ rhsEntry = OfferEntry(1, 1, 1)
    /\ better = "-"

\* the book over one of the initial tables, no scope open
BookInit(books) ==
    /\ offers \in books
    /\ bookCache = [pr \in AssetPairs |-> NoCachedOffers]
    /\ bookEntry = [s \in 1..MaxDepth |-> NoOfferEntries]
    /\ bookDepth = 0
    /\ bookEdits = 0
    /\ bookLast = BookCall("-", 0)

\* the accounts over one of the initial tables, no scope open
VotesInit(tables) ==
    /\ accounts \in tables
    /\ voteEntry = [s \in 1..MaxDepth |-> NoAccountEntries]
    /\ voteDepth = 0
    /\ voteEdits = 0
    /\ votesLast = VotesCall("-", TRUE)

\* the parts of the model a specification leaves alone
Idle == PriceIdle /\ BookInit({NoOfferEntries}) /\ VotesInit({NoAccountEntries}) /\ LateIdle

\* the ledger state over a store holding any of the keys
InitLedger ==
    LedgerInit([Keys -> {None, Entry(1, 1)}]) /\ PendingInit /\ QuorumInit /\ Idle

\* the pipeline beside an empty ledger
InitPending ==
    PendingInit /\ QuorumInit /\ LedgerInit({[k \in Keys |-> None]}) /\ updArg = FALSE /\ Idle

\* the quorum tracker beside an empty pipeline and an empty ledger
InitQuorum ==
    QuorumInit /\ PendingInit /\ LedgerInit({[k \in Keys |-> None]}) /\ updArg = FALSE /\ Idle

\* one more call of the client, within the bound
Called ==
    nCalls < MaxCalls /\ nCalls' = nCalls + 1 /\ UNCHANGED <<peVars, qtVars, retVars, obVars>>

NextLedger ==
    \/ \E p \in Parents : Called /\ Construct(p)
    \/ \E s \in Scopes, k \in Keys, v \in Vals : Called /\ Create(s, k, v)
    \/ \E s \in Scopes, k \in Keys : Called /\ Load(s, k)
    \/ \E s \in Scopes, k \in Keys : Called /\ LoadWithoutRecord(s, k)
    \/ \E s \in Scopes, k \in Keys : Called /\ Erase(s, k)
    \/ \E s \in Scopes, k \in Keys : Called /\ EntryErase(s, k)
    \/ \E s \in Scopes, k \in Keys : Called /\ Deactivate(s, k)
    \/ \E s \in Scopes, k \in Keys, v \in Vals : Called /\ Modify(s, k, v)
    \/ \E s \in Scopes : Called /\ LoadHeader(s)
    \/ \E s \in Scopes : Called /\ DeactivateHeader(s)
    \/ \E s \in Scopes, q \in Seqs : Called /\ ModifyHeader(s, q)
    \/ \E s \in Scopes, q \in Seqs : Called /\ UnsealHeader(s, q)
    \/ \E s \in Scopes : Called /\ GetChanges(s)
    \/ \E s \in Scopes : Called /\ GetDelta(s)
    \/ \E s \in Scopes : Called /\ GetLiveEntries(s)
    \/ \E s \in Scopes : Called /\ GetDeadEntries(s)
    \/ \E s \in Scopes : Called /\ LoadAllOffers(s)
    \/ \E s \in Scopes : Called /\ LoadOffersByAccountAndAsset(s)
    \/ \E s \in Scopes : Called /\ LoadBestOffer(s)
    \/ \E s \in Scopes : Called /\ GetBestOffer(s)
    \/ \E s \in Scopes : Called /\ Commit(s)
    \/ \E s \in Scopes : Called /\ Rollback(s)
    \/ \E s \in Scopes : Called /\ Drop(s)

SpecLedger == InitLedger /\ [][NextLedger]_vars

NextPending ==
    \/ \E e \in Envelopes : RecvSCPEnvelope(e)
    \/ \E h \in QSetHashes : AddSCPQuorumSet(h)
    \/ \E h \in QSetHashes : RecvSCPQuorumSet(h)
    \/ \E h \in TxSetHashes, n \in Slots : AddTxSet(h, n)
    \/ \E h \in TxSetHashes : RecvTxSet(h)
    \/ \E n \in Slots : Pop(n)
    \/ \E e \in Envelopes : EnvelopeProcessed(e)
    \/ \E n \in Slots : SlotClosed(n)
    \/ \E n \in 1..(MaxSlot + 1) : EraseBelow(n)

SpecPending == InitPending /\ [][NextPending]_vars

\* every lookup the herder can hand to rebuild
Lookups == [Nodes -> QSetPtrs]

\* the lookups that know no descriptor but the local node's
LocalLookups == {lookup \in Lookups : \A n \in Nodes \ {mLocalNodeID} : lookup[n] = NoQSet}

NextQuorum ==
    \/ \E id \in Nodes, qSet \in QSets : Expand(id, qSet)
    \/ \E lookup \in (IF qState = "new" THEN Lookups ELSE LocalLookups) : Rebuild(lookup)
    \/ \E id \in Nodes : IsNodeDefinitelyInQuorum(id)

SpecQuorum == InitQuorum /\ [][NextQuorum]_vars

\* the scope stack, the pipeline and the quorum tracker left as constructed
RestInit ==
    LedgerInit({[k \in Keys |-> None]}) /\ updArg = FALSE /\ PendingInit /\ QuorumInit /\ LateIdle

\* the comparison of two offers beside an empty ledger
InitPrice ==
    PriceInit /\ RestInit /\ BookInit({NoOfferEntries}) /\ VotesInit({NoAccountEntries})

\* isBetterOffer(lhsEntry, rhsEntry)
IsBetterOffer ==
    /\ better = "-"
    /\ better' = IF isBetterOffer(lhsEntry, rhsEntry) THEN "true" ELSE "false"
    /\ UNCHANGED <<lhsEntry, rhsEntry, lsVars, peVars, qtVars, retVars, bookVars, voteVars, lateVars>>

NextPrice == IsBetterOffer

SpecPrice == InitPrice /\ [][NextPrice]_vars

\* the order book beside an empty ledger
InitBook == BookInit(InitialBooks) /\ PriceIdle /\ RestInit /\ VotesInit({NoAccountEntries})

\* a call on the book changes nothing else
BookOnly == UNCHANGED <<lsVars, peVars, qtVars, retVars, priceVars, voteVars, lateVars>>

\* one more change of a scope, within the bound
Edited == bookEdits < MaxEdits /\ bookEdits' = bookEdits + 1

\* LedgerState::LedgerState over the innermost scope of the book, or the root
OpenBook ==
    /\ bookDepth < MaxDepth
    /\ bookDepth' = bookDepth + 1
    /\ bookLast' = BookCall("-", 0)
    /\ UNCHANGED <<offers, bookCache, bookEntry, bookEdits>>
    /\ BookOnly

\* create(v) on the innermost scope, for an offer with no newest version
CreateOffer(v) ==
    /\ bookDepth > 0
    /\ ~IsOffer(newestOffer(bookDepth, v.offerID))
    /\ Edited
    /\ bookEntry' = [bookEntry EXCEPT ![bookDepth][v.offerID] = v]
    /\ bookLast' = BookCall("-", 0)
    /\ UNCHANGED <<offers, bookCache, bookDepth>>
    /\ BookOnly

\* load of an offer on the innermost scope, and an assignment through the handle
UpdateOffer(v) ==
    /\ bookDepth > 0
    /\ IsOffer(newestOffer(bookDepth, v.offerID))
    /\ newestOffer(bookDepth, v.offerID) # v
    /\ Edited
    /\ bookEntry' = [bookEntry EXCEPT ![bookDepth][v.offerID] = v]
    /\ bookLast' = BookCall("-", 0)
    /\ UNCHANGED <<offers, bookCache, bookDepth>>
    /\ BookOnly

\* erase of an offer on the innermost scope
EraseOffer(i) ==
    /\ bookDepth > 0
    /\ IsOffer(newestOffer(bookDepth, i))
    /\ Edited
    /\ bookEntry' = [bookEntry EXCEPT ![bookDepth][i] =
                        IF ~IsOffer(newestOffer(bookDepth - 1, i)) THEN NoRow ELSE Erased]
    /\ bookLast' = BookCall("-", 0)
    /\ UNCHANGED <<offers, bookCache, bookDepth>>
    /\ BookOnly

\* commit of the innermost scope: into its parent scope, or into the table
\* with the best-offers cache cleared
CommitBook ==
    /\ bookDepth > 0
    /\ IF bookDepth = 1
       THEN /\ offers' = [i \in OfferIDs |->
                            IF bookEntry[1][i] = NoRow THEN offers[i]
                            ELSE IF IsOffer(bookEntry[1][i]) THEN bookEntry[1][i]
                            ELSE NoRow]
            /\ bookCache' = [pr \in AssetPairs |-> NoCachedOffers]
            /\ bookEntry' = [bookEntry EXCEPT ![1] = NoOfferEntries]
       ELSE /\ bookEntry' = [bookEntry EXCEPT
                                ![bookDepth - 1] =
                                    [i \in OfferIDs |->
                                        bookCommitChildEntry(bookDepth - 1, i,
                                                             bookEntry[bookDepth][i])],
                                ![bookDepth] = NoOfferEntries]
            /\ UNCHANGED <<offers, bookCache>>
    /\ bookDepth' = bookDepth - 1
    /\ bookLast' = BookCall("-", 0)
    /\ UNCHANGED bookEdits
    /\ BookOnly

\* rollback of the innermost scope
RollbackBook ==
    /\ bookDepth > 0
    /\ bookEntry' = [bookEntry EXCEPT ![bookDepth] = NoOfferEntries]
    /\ bookDepth' = bookDepth - 1
    /\ bookLast' = BookCall("-", 0)
    /\ UNCHANGED <<offers, bookCache, bookEdits>>
    /\ BookOnly

\* getBestOffer(buying, selling, exclude) on scope s of the book or on the root
BookGetBestOffer(s, pr, exclude) ==
    /\ s \in 0..bookDepth
    /\ bookCache' = bookBestOffer(s, pr[1], pr[2], exclude).cache
    /\ bookLast' = BookCall("getBestOffer", 0)
    /\ UNCHANGED <<offers, bookEntry, bookDepth, bookEdits>>
    /\ BookOnly

\* getOffersByAccountAndAsset(account, asset) on scope s of the book or on
\* the root
BookGetOffersByAccountAndAsset(s, account, asset) ==
    /\ s \in 0..bookDepth
    /\ bookLast' = BookCall("getOffersByAccountAndAsset", 0)
    /\ UNCHANGED <<offers, bookCache, bookEntry, bookDepth, bookEdits>>
    /\ BookOnly

NextBook ==
    \/ OpenBook
    \/ \E i \in ChangedIDs : \E v \in OfferVersions(i) : CreateOffer(v)
    \/ \E i \in ChangedIDs : \E v \in OfferVersions(i) : UpdateOffer(v)
    \/ \E i \in ChangedIDs : EraseOffer(i)
    \/ CommitBook
    \/ RollbackBook
    \/ \E pr \in AssetPairs, exclude \in ExcludeSets :
          BookGetBestOffer(bookDepth, pr, exclude)
    \/ \E account \in SellerIDs, asset \in BookAssets :
          BookGetOffersByAccountAndAsset(bookDepth, account, asset)

SpecBook == InitBook /\ [][NextBook]_vars

\* the accounts that vote beside an empty ledger
InitVotes ==
    VotesInit(InitialAccounts) /\ PriceIdle /\ RestInit /\ BookInit({NoOfferEntries})

\* a call on the accounts changes nothing else; none comes after a call
\* that did not return
VotesOnly ==
    /\ votesLast.ok
    /\ UNCHANGED <<lsVars, peVars, qtVars, retVars, priceVars, bookVars, lateVars>>

\* one more change of a scope over the accounts, within the bound
VoteEdited == voteEdits < MaxEdits /\ voteEdits' = voteEdits + 1

\* LedgerState::LedgerState over the innermost scope of the accounts, or the root
OpenVotes ==
    /\ voteDepth < MaxDepth
    /\ voteDepth' = voteDepth + 1
    /\ votesLast' = VotesCall("-", TRUE)
    /\ UNCHANGED <<accounts, voteEntry, voteEdits>>
    /\ VotesOnly

\* create of voter v's account on the innermost scope
CreateAccount(v, a) ==
    /\ voteDepth > 0
    /\ ~IsAccount(newestAccount(voteDepth, v))
    /\ VoteEdited
    /\ voteEntry' = [voteEntry EXCEPT ![voteDepth][v] = a]
    /\ votesLast' = VotesCall("-", TRUE)
    /\ UNCHANGED <<accounts, voteDepth>>
    /\ VotesOnly

\* load of voter v's account on the innermost scope, and an assignment
\* through the handle
UpdateAccount(v, a) ==
    /\ voteDepth > 0
    /\ IsAccount(newestAccount(voteDepth, v))
    /\ newestAccount(voteDepth, v) # a
    /\ VoteEdited
    /\ voteEntry' = [voteEntry EXCEPT ![voteDepth][v] = a]
    /\ votesLast' = VotesCall("-", TRUE)
    /\ UNCHANGED <<accounts, voteDepth>>
    /\ VotesOnly

\* erase of voter v's account on the innermost scope
EraseAccount(v) ==
    /\ voteDepth > 0
    /\ IsAccount(newestAccount(voteDepth, v))
    /\ VoteEdited
    /\ voteEntry' = [voteEntry EXCEPT ![voteDepth][v] =
                        IF ~IsAccount(newestAccount(voteDepth - 1, v))
                        THEN NoAccount ELSE ErasedAccount]
    /\ votesLast' = VotesCall("-", TRUE)
    /\ UNCHANGED <<accounts, voteDepth>>
    /\ VotesOnly

\* commit of the innermost scope over the accounts
CommitVotes ==
    /\ voteDepth > 0
    /\ IF voteDepth = 1
       THEN /\ accounts' = [v \in Voters |->
                              IF voteEntry[1][v] = NoAccount THEN accounts[v]
                              ELSE IF IsAccount(voteEntry[1][v]) THEN voteEntry[1][v]
                              ELSE NoAccount]
            /\ voteEntry' = [voteEntry EXCEPT ![1] = NoAccountEntries]
       ELSE /\ voteEntry' = [voteEntry EXCEPT
                                ![voteDepth - 1] =
                                    [v \in Voters |->
                                        voteCommitChildEntry(voteDepth - 1, v,
                                                             voteEntry[voteDepth][v])],
                                ![voteDepth] = NoAccountEntries]
            /\ UNCHANGED accounts
    /\ voteDepth' = voteDepth - 1
    /\ votesLast' = VotesCall("-", TRUE)
    /\ UNCHANGED voteEdits
    /\ VotesOnly

\* rollback of the innermost scope over the accounts
RollbackVotes ==
    /\ voteDepth > 0
    /\ voteEntry' = [voteEntry EXCEPT ![voteDepth] = NoAccountEntries]
    /\ voteDepth' = voteDepth - 1
    /\ votesLast' = VotesCall("-", TRUE)
    /\ UNCHANGED <<accounts, voteEdits>>
    /\ VotesOnly

\* getInflationWinners(maxWinners, minVotes) on the innermost scope or the root
GetInflationWinners(maxWinners, minVotes) ==
    /\ \E r \in getInflationWinners(voteDepth, maxWinners, minVotes) :
          votesLast' = VotesCall("getInflationWinners", r # Crashed)
    /\ UNCHANGED <<accounts, voteEntry, voteDepth, voteEdits>>
    /\ VotesOnly

NextVotes ==
    \/ OpenVotes
    \/ \E v \in Voters, a \in AccountVersions : CreateAccount(v, a)
    \/ \E v \in Voters, a \in AccountVersions : UpdateAccount(v, a)
    \/ \E v \in Voters : EraseAccount(v)
    \/ CommitVotes
    \/ RollbackVotes
    \/ \E maxWinners \in 0..MaxWinners, minVotes \in 1..MaxMinVotes :
          GetInflationWinners(maxWinners, minVotes)

SpecVotes == InitVotes /\ [][NextVotes]_vars

\* ================================================================ claims
\* the per-slot sets of slot s that hold envelope e
setsHolding(s, e) ==
    {n \in {"discarded", "processed", "fetching", "ready"} :
        \/ n = "discarded" /\ e \in mEnvelopes[s].mDiscardedEnvelopes
        \/ n = "processed" /\ e \in mEnvelopes[s].mProcessedEnvelopes
        \/ n = "fetching" /\ e \in mEnvelopes[s].mFetchingEnvelopes
        \/ n = "ready" /\ InSeq(mEnvelopes[s].mReadyEnvelopes, e)}

\* C1: in every reachable state of the pipeline, for every slot and every
\* envelope, the envelope is in at most one of the slot's four sets
\* discarded, processed, fetching and ready.
C1_SetsDisjoint ==
    \A s \in Slots, e \in Envelopes : Cardinality(setsHolding(s, e)) <= 1

\* C1 witness: all four kinds of set are in use at once, by four envelopes
C1_Witness ==
    \E e1, e2, e3, e4 \in Envelopes :
        /\ setsHolding(e1.slotIndex, e1) = {"discarded"}
        /\ setsHolding(e2.slotIndex, e2) = {"processed"}
        /\ setsHolding(e3.slotIndex, e3) = {"fetching"}
        /\ setsHolding(e4.slotIndex, e4) = {"ready"}

\* C2: in every reachable state, every key a live scope maps to the erased
\* marker has a newest version visible through the scope's parent, and the
\* assertion of getChanges never fails.
C2_TombstoneHasParentVersion ==
    /\ \A s \in Scopes : Live(s) => getChangesAssertion(s)
    /\ last.ret # "assert"

\* the calls of C3 that take a key
KeyedHandleCalls == {"load", "loadWithoutRecord", "create"}

\* C3: while key k is active in scope S, load(k), loadWithoutRecord(k) and
\* create(k) on S raise an error and leave S's entries and active handles
\* unchanged, and loadHeader raises while S's header handle is active.
C3_HandlesExclusive ==
    [][/\ (/\ last'.op \in KeyedHandleCalls
           /\ Live(last'.s)
           /\ mActive[last'.s][last'.k] # "none")
          => (/\ ~last'.ok
              /\ mEntry'[last'.s] = mEntry[last'.s]
              /\ mActive'[last'.s] = mActive[last'.s])
       /\ (/\ last'.op = "loadHeader"
           /\ Live(last'.s)
           /\ mActiveHeader[last'.s])
          => (/\ ~last'.ok
              /\ mActiveHeader' = mActiveHeader
              /\ mHeader' = mHeader)]_vars

\* C3 witness: a load of a key whose handle is active was refused in a scope
\* that is neither sealed nor frozen, and the handle is still there
C3_Witness ==
    /\ last.op \in KeyedHandleCalls
    /\ ~last.ok
    /\ Live(last.s)
    /\ checkNotSealed(last.s) /\ checkNoChild(last.s)
    /\ mActive[last.s][last.k] # "none"

\* C4: when scope S commits into a parent scope P, every entry v of S (as
\* sealed by the commit) is P's entry for its key; a key S erased is absent
\* from P when P's parent has no newest version of it and erased in P
\* otherwise; a key S does not hold keeps P's mapping; P takes S's header and
\* has no child. The merge is one step.
C4_CommitIntoScope ==
    [][\A s \in Scopes :
          (/\ last'.op = "commit" /\ last'.ok /\ last'.s = s
           /\ mParent(s) # Root)
          => LET p == mParent(s)
             IN /\ \A k \in Keys :
                     LET v == sealedEntries(s)[k]
                     IN /\ IsEntry(v) => mEntry'[p][k] = v
                        /\ v = None =>
                             mEntry'[p][k] =
                               (IF IsEntry(getNewestVersion(mParent(p), k))
                                THEN None ELSE Absent)
                        /\ v = Absent => mEntry'[p][k] = mEntry[p][k]
                /\ mHeader'[p] = mHeader[s]
                /\ mChild'[p] = NULL]_vars

\* C4 witness: a scope committed into its parent scope an entry, which the
\* parent now holds, and an erased key, which the parent holds as erased
\* because the root has a version of it
C4_Witness ==
    /\ last.op = "commit" /\ last.ok
    /\ last.s \in Scopes /\ mParent(last.s) # Root
    /\ \E k1, k2 \in Keys :
          /\ IsEntry(last.args[k1])
          /\ mEntry[mParent(last.s)][k1] = last.args[k1]
          /\ last.args[k2] = None
          /\ IsEntry(getNewestVersion(mParent(mParent(last.s)), k2))
          /\ mEntry[mParent(last.s)][k2] = None

\* the calls C5 lists; "construct" is the opening of a child scope
SealedForbidden ==
    {"create", "erase", "load", "loadWithoutRecord", "loadHeader", "loadBestOffer",
     "loadAllOffers", "loadOffersByAccountAndAsset", "construct"}

\* C5: once scope S is sealed, create, erase, load, loadWithoutRecord,
\* loadHeader, loadBestOffer, loadAllOffers, loadOffersByAccountAndAsset and
\* the opening of a child on S raise an error and leave S's entries and
\* header unchanged, and S stays sealed.
C5_SealedRefusesCalls ==
    [][\A s \in Scopes :
          (Live(s) /\ mIsSealed[s])
          => /\ (last'.s = s /\ last'.op \in SealedForbidden)
                => (/\ ~last'.ok
                    /\ mEntry'[s] = mEntry[s]
                    /\ mHeader'[s] = mHeader[s])
             /\ life'[s] = "live" => mIsSealed'[s]]_vars

\* the calls C6 lists
FrozenForbidden ==
    {"create", "erase", "load", "loadWithoutRecord", "loadHeader", "construct",
     "commit", "getChanges", "getDelta", "getLiveEntries", "getDeadEntries"}

\* C6: while scope S has a live child, the calls above on S raise an error,
\* and S's entries, header and sealed flag stay as they were when the child
\* was attached, until the child commits or rolls back.
C6_FrozenWhileChild ==
    [][\A s \in Scopes :
          (Live(s) /\ mChild[s] # NULL)
          => /\ (last'.s = s /\ last'.op \in FrozenForbidden) => ~last'.ok
             /\ mEntry[s] = snap[mChild[s]].entries
             /\ mHeader[s] = snap[mChild[s]].header
             /\ (life'[s] = "live" /\ mChild'[s] # NULL)
                => (/\ mChild'[s] = mChild[s]
                    /\ mEntry'[s] = mEntry[s]
                    /\ mHeader'[s] = mHeader[s]
                    /\ mIsSealed'[s] = mIsSealed[s])]_vars

\* C6 witness: a call was refused on a scope that holds entries and has a
\* live child
C6_Witness ==
    /\ last.op \in FrozenForbidden /\ ~last.ok
    /\ Live(last.s)
    /\ mChild[last.s] # NULL /\ Live(mChild[last.s])
    /\ mEntry[last.s] # EmptyMap

\* every parent has at most one attached child, mChild points at it, and
\* the root's transaction is open exactly while the root has a child
OneChildEach ==
    /\ \A p \in Parents :
          /\ nAttached[p] <= 1
          /\ mChild[p] # NULL <=> nAttached[p] = 1
          /\ mChild[p] # NULL => (mChild[p] = p + 1 /\ Live(mChild[p]))
    /\ \A c \in Scopes : Live(c) => mChild[mParent(c)] = c
    /\ mTransaction <=> mChild[Root] # NULL

\* C7: the root and every scope have at most one child; constructing a scope
\* over a parent that has a child raises an error and leaves that child
\* untouched; the root's store transaction is open iff the root has a child.
C7_OneChild ==
    [][/\ OneChildEach'
       /\ (last'.op = "construct" /\ mChild[last'.s] # NULL)
          => (/\ ~last'.ok
              /\ mChild' = mChild /\ life' = life
              /\ mEntry' = mEntry /\ mHeader' = mHeader)]_vars

\* C7 witness: a second scope over the root was refused while the first is
\* attached and the transaction is open
C7_Witness ==
    /\ last.op = "construct" /\ ~last.ok /\ last.s = Root
    /\ mChild[Root] # NULL /\ Live(mChild[Root])
    /\ mTransaction

\* C8: when a store write fails while the root commits its child, the
\* root's entry cache and best-offers cache are empty afterwards, the store
\* transaction is still open and nothing is committed, the root keeps its
\* header and its child. Only a commit that wrote every key commits the
\* transaction, adopts the child's header and detaches the child.
C8_RootCommitFailure ==
    [][\A s \in Scopes :
          (/\ last'.op = "commit" /\ last'.s = s
           /\ Live(s) /\ mParent(s) = Root /\ mChild[s] = NULL)
          => LET se == sealedEntries(s)
             IN /\ ~last'.ok
                   => (/\ mEntryCache' = EmptyMap
                       /\ mBestOffersCache' = NoBestOffers
                       /\ db' = db
                       /\ mTransaction'
                       /\ mHeader'[Root] = mHeader[Root]
                       /\ mChild'[Root] = s
                       /\ life'[s] = "live")
                /\ last'.ok
                   => (/\ \A k \in Keys :
                            db'[k] = IF se[k] # Absent THEN rowOf(se[k]) ELSE db[k]
                       /\ ~mTransaction'
                       /\ mHeader'[Root] = mHeader[s]
                       /\ mChild'[Root] = NULL)]_vars

\* C8 witness: a commit into the root failed after part of the scope was
\* written; the scope is still the root's child and the cache is empty
C8_Witness ==
    /\ last.op = "commit" /\ ~last.ok
    /\ Live(last.s) /\ mParent(last.s) = Root /\ mChild[last.s] = NULL
    /\ mChild[Root] = last.s
    /\ dbTxn # db
    /\ mEntryCache = EmptyMap
    /\ mTransaction

\* C9: rolling back scope S, by rollback or by dropping it, leaves the
\* parent's entries and header as they were when S was opened; the live
\* descendants of S are rolled back innermost first, S last; the parent then
\* has no child; for the root the store is unchanged and both caches are kept.
C9_RollbackRestoresParent ==
    [][\A s \in Scopes :
          (last'.op \in {"rollback", "drop"} /\ last'.s = s /\ Live(s))
          => LET p == mParent(s)
                 order == last'.order
                 n == Len(order)
             IN /\ mChild'[p] = NULL
                /\ p # Root => (/\ mEntry'[p] = snap[s].entries
                                /\ mHeader'[p] = snap[s].header
                                /\ life'[p] = "live")
                /\ p = Root => (/\ db' = snap[s].entries
                                /\ dbTxn' = db'
                                /\ ~mTransaction'
                                /\ mHeader'[Root] = snap[s].header
                                /\ mEntryCache' = mEntryCache
                                /\ mBestOffersCache' = mBestOffersCache)
                /\ n >= 1 /\ order[n] = s /\ mChild[order[1]] = NULL
                /\ \A i \in 1..(n - 1) : mChild[order[i + 1]] = order[i]
                /\ \A i \in 1..n : life'[order[i]] # "live"]_vars

\* C9 witness: a scope over the root was rolled back together with its
\* child, after reads had filled the root's entry cache
C9_Witness ==
    /\ last.op \in {"rollback", "drop"}
    /\ Len(last.order) >= 2
    /\ mParent(last.s) = Root
    /\ mChild[Root] = NULL /\ ~mTransaction
    /\ mEntryCache # EmptyMap

\* C10: a scope ends exactly once, by commit or by rollback: a scope that is
\* destroyed while live is rolled back by its destructor (also after a commit
\* that raised), and one whose commit or rollback completed makes no further
\* call on its parent when it is destroyed.
C10_EndsExactlyOnce ==
    [][/\ ~stray'
       /\ \A s \in Scopes :
             /\ ends'[s] <= 1
             /\ life'[s] = "live" => ends'[s] = 0
             /\ life'[s] = "ended" => ends'[s] = 1
             /\ (life[s] # "none" /\ life'[s] = "none") => ends'[s] = 1
             /\ (life[s] = "live" /\ last'.op = "drop" /\ last'.s = s)
                => (/\ last'.order # <<>>
                    /\ mChild'[mParent(s)] = NULL
                    /\ mParent(s) = Root => (~mTransaction' /\ dbTxn' = db))
             /\ (life[s] = "ended" /\ last'.op = "drop" /\ last'.s = s)
                => (/\ last'.order = <<>>
                    /\ ends'[s] = ends[s]
                    /\ mChild' = mChild /\ mEntry' = mEntry /\ mHeader' = mHeader
                    /\ UNCHANGED rootVars)]_vars

\* C10 witness: a scope that had committed into the root was destroyed, and
\* the rows it committed are in the store
C10_Witness ==
    /\ last.op = "drop" /\ last.order = <<>>
    /\ life[last.s] = "none" /\ ends[last.s] = 1
    /\ mParent(last.s) = Root
    /\ \E k \in Keys : db[k] = Entry(2, 1)

\* the leaves of the descriptor recorded for node p, none when it has none
leavesOf(M, p) == IF M[p].mQSet = NoQSet THEN {} ELSE Range(forAllNodes(M[p].mQSet))

\* the nodes one step nearer than n that have a descriptor listing n
predecessors(M, n) ==
    {p \in Nodes : /\ M[p].in
                   /\ M[p].mDistance = M[n].mDistance - 1
                   /\ n \in leavesOf(M, p)}

\* C11: once the tracker was rebuilt, whatever expand calls followed, the
\* local node is in the map at distance 0 and every node at a distance d > 0
\* has a predecessor in the map at distance d-1 whose descriptor is known and
\* lists the node.
C11_PredecessorAtDistance ==
    qState # "new"
    => /\ mQuorum[mLocalNodeID].in
       /\ mQuorum[mLocalNodeID].mDistance = 0
       /\ \A n \in Nodes :
             (mQuorum[n].in /\ mQuorum[n].mDistance > 0) => predecessors(mQuorum, n) # {}

\* C11 witness: an expand was rejected at one of its leaves after it had
\* recorded the descriptor, in a map that reaches distance 3
C11_Witness ==
    /\ qLast.op = "expand" /\ ~qLast.res
    /\ mQuorum[qLast.id].mQSet = qLast.q
    /\ \E n \in Nodes : mQuorum[n].in /\ mQuorum[n].mDistance = 3

\* C12: once the tracker was rebuilt and while every expand since was
\* accepted, the closest validators of a node at distance 1 are the node
\* itself, and those of a node at a distance d > 1 are the union of the
\* closest validators of all its predecessors, as these are now.
C12_ClosestIsUnionOfPredecessors ==
    qState = "clean"
    => \A n \in Nodes :
          /\ (mQuorum[n].in /\ mQuorum[n].mDistance = 1)
             => mQuorum[n].mClosestQSetValidators = {n}
          /\ (mQuorum[n].in /\ mQuorum[n].mDistance > 1)
             => mQuorum[n].mClosestQSetValidators =
                  UNION {mQuorum[p].mClosestQSetValidators : p \in predecessors(mQuorum, n)}

\* C13: an expand that returns false, whatever made it do so, leaves the
\* whole quorum map (membership, descriptors, distances and closest
\* validators) as it was before the call.
C13_RejectedExpandChangesNothing ==
    [][(qLast'.op = "expand" /\ ~qLast'.res) => mQuorum' = mQuorum]_vars

\* C14: whatever the lookup, no expand that rebuild makes is rejected, so
\* that rebuild never throws 'Invalid state while rebuilding quorum state'.
C14_RebuildNeverRejects == qLast.op = "rebuild" => qLast.res

\* C14 witness: a rebuild went through a graph with a cycle through the local
\* node (D, at distance 3, lists the local node), a node that lists itself,
\* and a node whose descriptor is unknown
C14_Witness ==
    /\ qLast.op = "rebuild" /\ qLast.res
    /\ mQuorum["D"].in /\ mQuorum["D"].mDistance = 3 /\ mQuorum["D"].mQSet = "qL"
    /\ mQuorum["C"].mQSet = "qCD"
    /\ \E n \in Nodes : mQuorum[n].in /\ mQuorum[n].mQSet = NoQSet

RECURSIVE bfsLevel(_, _, _, _, _)
\* the number of the breadth-first level that holds n, NULL when no level does
bfsLevel(M, seen, frontier, d, n) ==
    IF n \in frontier THEN d
    ELSE IF frontier = {} THEN NULL
    ELSE bfsLevel(M, seen \cup frontier,
                  UNION {leavesOf(M, p) : p \in frontier} \ (seen \cup frontier),
                  d + 1, n)

\* the length of the shortest path from the local node to n over the
\* descriptors recorded in M, NULL when there is none
bfsDistance(M, n) == bfsLevel(M, {}, {mLocalNodeID}, 0, n)

\* C15: once the tracker was rebuilt and while every expand since was
\* accepted, the nodes in the map are exactly the nodes reachable from the
\* local node through the leaves of the recorded descriptors, each at the
\* distance of its shortest path, and isNodeDefinitelyInQuorum answers true
\* for exactly these nodes.
C15_MapIsBreadthFirstClosure ==
    qState = "clean"
    => /\ \A n \in Nodes :
             /\ isNodeDefinitelyInQuorum(mQuorum, n) <=> bfsDistance(mQuorum, n) # NULL
             /\ mQuorum[n].in => mQuorum[n].mDistance = bfsDistance(mQuorum, n)
       /\ qLast.op = "isNodeDefinitelyInQuorum"
          => (qLast.res <=> bfsDistance(mQuorum, qLast.id) # NULL)

\* C15 witness: an accepted expand put a leaf without descriptor one step
\* below the expanded node, while another node at least as far as the leaf
\* lists that leaf too
C15_Witness ==
    /\ qState = "clean"
    /\ qLast.op = "expand" /\ qLast.res
    /\ \E n \in Range(forAllNodes(qLast.q)), p \in Nodes \ {qLast.id} :
          /\ mQuorum[n].mQSet = NoQSet
          /\ mQuorum[n].mDistance = mQuorum[qLast.id].mDistance + 1
          /\ mQuorum[p].in /\ n \in leavesOf(mQuorum, p)
          /\ mQuorum[p].mDistance >= mQuorum[n].mDistance

\* the envelopes that reference quorum set h and are fetching or ready
awaiting(h) == {e \in Envelopes : e.qset = h /\ (isFetching(PE, e) \/ isReady(PE, e))}

\* C16: when an unsafe quorum set h arrives (recvSCPQuorumSet, or
\* addSCPQuorumSet from the herder) while envelopes that reference h are
\* fetching or ready, then after the call each of them is discarded in its
\* slot, none is fetching or ready, none waits for any quorum set or
\* transaction set, and nothing waits for h.
C16_UnsafeQSetDiscardsAll ==
    [][\A h \in QSetHashes :
          (/\ ~isQuorumSetSane(h)
           /\ RecvSCPQuorumSet(h) \/ AddSCPQuorumSet(h)
           /\ awaiting(h) # {})
          => /\ \A e \in awaiting(h) :
                   /\ e \in mEnvelopes'[e.slotIndex].mDiscardedEnvelopes
                   /\ e \notin mEnvelopes'[e.slotIndex].mFetchingEnvelopes
                   /\ ~InSeq(mEnvelopes'[e.slotIndex].mReadyEnvelopes, e)
                   /\ \A q \in QSetHashes : e \notin mQuorumSetFetcher'[q]
                   /\ \A t \in TxSetHashes : e \notin mTxSetFetcher'[t]
             /\ mQuorumSetFetcher'[h] = {}]_vars

\* C16 witness: recvSCPQuorumSet refused an unsafe quorum set (it is not
\* cached) that two envelopes of two slots were waiting for, one of them
\* waiting for its transaction set too; both are discarded now
C16_Witness ==
    /\ status = "false"
    /\ "qbad" \notin mKnownQSet
    /\ mTxSetCache["tx"] = 0
    /\ Env(1, "qbad", NoTxSet) \in mEnvelopes[1].mDiscardedEnvelopes
    /\ Env(2, "qbad", "tx") \in mEnvelopes[2].mDiscardedEnvelopes
    /\ mTxSetFetcher["tx"] = {}

\* the envelope is in the discarded set, in the processed set, of its slot
nowDiscarded(e) == e \in mEnvelopes[e.slotIndex].mDiscardedEnvelopes
nowProcessed(e) == e \in mEnvelopes[e.slotIndex].mProcessedEnvelopes

\* the step erases slot s
erasesSlot(s) == \E n \in 1..(MaxSlot + 1) : s < n /\ EraseBelow(n)

sweeps(h) ==
    /\ ~isQuorumSetSane(h)
    /\ \/ AddSCPQuorumSet(h)
       \/ RecvSCPQuorumSet(h)
       \/ \E e \in Envelopes : e.qset = h /\ RecvSCPEnvelope(e)

nowFetching(e) == e \in mEnvelopes[e.slotIndex].mFetchingEnvelopes
nowReady(e) == InSeq(mEnvelopes[e.slotIndex].mReadyEnvelopes, e)

\* the quorum set and, when there is one, the transaction set of e are cached
qsetCached(e) == e.qset \in mKnownQSet
txsetCached(e) == e.txset = NoTxSet \/ mTxSetCache[e.txset] # 0

\* recv takes e as a new envelope: its slot is not below the lower bound, it
\* is in none of the four sets, and its quorum set is not known to be unsafe
newToRecv(e) ==
    /\ e.slotIndex >= minSlot
    /\ ~nowDiscarded(e) /\ ~nowProcessed(e) /\ ~nowFetching(e) /\ ~nowReady(e)
    /\ ~(qsetCached(e) /\ ~isQuorumSetSane(e.qset))

\* the step delivers a dependency of e that was missing
deliversMissing(e) ==
    \/ /\ ~qsetCached(e)
       /\ AddSCPQuorumSet(e.qset) \/ RecvSCPQuorumSet(e.qset)
    \/ /\ ~txsetCached(e)
       /\ RecvTxSet(e.txset) \/ \E n \in Slots : AddTxSet(e.txset, n)

\* C18: recv of a new envelope puts it in ready iff its quorum set and its
\* transaction set (when it has one) are cached, and otherwise in fetching
\* with a fetch started for exactly the missing hashes; a fetching envelope
\* gets ready only in a step that delivers a dependency it missed and leaves
\* none missing; no fetching envelope has all its dependencies cached, and
\* every ready envelope has.
C18_ReadyIffFetched ==
    [][\A e \in Envelopes :
          /\ (newToRecv(e) /\ RecvSCPEnvelope(e))
             => IF qsetCached(e) /\ txsetCached(e)
                THEN nowReady(e)' /\ ~nowFetching(e)' /\ status' = "READY"
                ELSE /\ nowFetching(e)' /\ ~nowReady(e)' /\ status' = "FETCHING"
                     /\ e \in mQuorumSetFetcher'[e.qset] <=> ~qsetCached(e)
                     /\ e.txset # NoTxSet
                        => (e \in mTxSetFetcher'[e.txset] <=> ~txsetCached(e))
          /\ (nowFetching(e) /\ nowReady(e)') => deliversMissing(e)
          /\ nowFetching(e)' => ~(qsetCached(e)' /\ txsetCached(e)')
          /\ nowReady(e)' => (qsetCached(e)' /\ txsetCached(e)')]_vars

\* C18 witness: an envelope that waited for its quorum set and for its
\* transaction set is ready after recvTxSet delivered the last of them, while
\* another envelope still waits for its quorum set
C18_Witness ==
    /\ status = "true"
    /\ nowReady(Env(1, "qsane", "tx"))
    /\ mTxSetCache["tx"] = 1
    /\ nowFetching(Env(2, "qbad", "tx"))
    /\ Env(2, "qbad", "tx") \in mQuorumSetFetcher["qbad"]

\* x comes before y in the sequence q
before(q, x, y) == \E i, j \in 1..Len(q) : i < j /\ q[i] = x /\ q[j] = y

\* C19: pop(slot) on a slot whose ready queue is not empty returns true,
\* hands back the envelope that has been in the queue longest and takes
\* exactly that envelope out; pop on an empty queue returns false, hands
\* back nothing and changes nothing. No call reorders a ready queue or puts
\* an envelope ahead of one that was there before, and no envelope is in a
\* ready queue twice, so the envelopes of a slot come out in the order they
\* went in, each once.
C19_PopIsFirstInFirstOut ==
    [][\A n \in Slots :
          LET q == mEnvelopes[n].mReadyEnvelopes
          IN /\ (Pop(n) /\ q # <<>>)
                => (/\ status' = "true"
                    /\ popped' = q[1]
                    /\ mEnvelopes'[n].mReadyEnvelopes = Tail(q)
                    /\ ~InSeq(mEnvelopes'[n].mReadyEnvelopes, q[1]))
             /\ (Pop(n) /\ q = <<>>)
                => (status' = "false" /\ popped' = NoEnv /\ UNCHANGED peVars)
             /\ \A x, y \in Envelopes :
                   (before(mEnvelopes'[n].mReadyEnvelopes, x, y) /\ InSeq(q, y))
                   => before(q, x, y)
             /\ \A x \in Envelopes : ~before(mEnvelopes'[n].mReadyEnvelopes, x, x)]_vars

\* C19 witness: pop handed back an envelope of slot 1 and left the envelope
\* that got ready after it in the queue
C19_Witness ==
    /\ status = "true"
    /\ popped # NoEnv /\ popped.slotIndex = 1
    /\ mEnvelopes[1].mReadyEnvelopes # <<>>

\* C20: recvSCPQuorumSet and recvTxSet of a hash nothing waits for return
\* false and leave the caches, the per-slot sets and the fetchers as they
\* were; after any delivery of a hash nothing waits for it, so that a second
\* delivery is such a call.
C20_UnrequestedIsDropped ==
    [][/\ \A h \in QSetHashes :
             /\ (mQuorumSetFetcher[h] = {} /\ RecvSCPQuorumSet(h))
                => (status' = "false" /\ UNCHANGED peVars)
             /\ (RecvSCPQuorumSet(h) \/ AddSCPQuorumSet(h))
                => mQuorumSetFetcher'[h] = {}
       /\ \A h \in TxSetHashes :
             /\ (mTxSetFetcher[h] = {} /\ RecvTxSet(h))
                => (status' = "false" /\ UNCHANGED peVars)
             /\ (RecvTxSet(h) \/ \E n \in Slots : AddTxSet(h, n))
                => mTxSetFetcher'[h] = {}]_vars

\* C20 witness: a delivery was refused (false, and not by pop: no ready queue
\* is empty; not for an unsafe quorum set: nothing is discarded) although the
\* transaction set and the quorum set are cached: they were delivered before
C20_Witness ==
    /\ status = "false"
    /\ \A n \in Slots : /\ mEnvelopes[n].mReadyEnvelopes # <<>>
                        /\ mEnvelopes[n].mDiscardedEnvelopes = {}
    /\ mTxSetCache["tx"] # 0
    /\ "qsane" \in mKnownQSet

\* the envelopes that wait for a quorum set or for a transaction set
waiters ==
    UNION ({mQuorumSetFetcher[h] : h \in QSetHashes}
           \cup {mTxSetFetcher[h] : h \in TxSetHashes})

\* recv of an envelope of a slot below the lower bound returns Invalid and
\* changes nothing
recvBelowIsInvalid ==
    \A e \in Envelopes :
        (e.slotIndex < minSlot /\ RecvSCPEnvelope(e))
        => (status' = "INVALID" /\ UNCHANGED peVars)

exactlyBetter(a, b) ==
    \/ ratioLess(a.price.n, a.price.d, b.price.n, b.price.d)
    \/ /\ ~ratioLess(b.price.n, b.price.d, a.price.n, a.price.d)
       /\ a.offerID < b.offerID

\* at unit prices isBetterOffer is the comparison of the numerators, then
\* of the offer ids
UnitPriceComparison ==
    (better # "-" /\ lhsEntry.price.d = 1 /\ rhsEntry.price.d = 1)
    => (better = "true" <=> isBetterOfferAtUnitPrice(lhsEntry, rhsEntry))

\* C27: isBetterOffer(a, b) is true exactly when a's price ratio is below
\* b's as exact fractions, or the ratios are equal and a has the smaller
\* offer id, for all positive int32 numerators and denominators
C27_ComparisonIsExact ==
    better # "-" => (better = "true" <=> exactlyBetter(lhsEntry, rhsEntry))

\* the stored offers of pair pr whose key is not in exclude
storedIncluded(pr, exclude) ==
    {offers[i] : i \in {j \in OfferIDs \ exclude :
        IsOffer(offers[j]) /\ offers[j].buying = pr[1] /\ offers[j].selling = pr[2]}}

\* the first of a set of offers by exact price ratio, then offer id
firstExactly(S) ==
    IF S = {} THEN NoRow ELSE CHOOSE o \in S : \A p \in S \ {o} : exactlyBetter(o, p)

visibleIncluded(s, pr, exclude) ==
    {newestOffer(s, i) : i \in {j \in OfferIDs \ exclude :
        /\ IsOffer(newestOffer(s, j))
        /\ newestOffer(s, j).buying = pr[1]
        /\ newestOffer(s, j).selling = pr[2]}}

\* C23: getBestOffer on a scope returns the best, by (price ratio, offer
\* id), of the offers whose newest visible version is of the pair and not
\* excluded, never a shadowed version, and nothing when there is none
C23_ScopeReturnsBestVisible ==
    \A s \in 1..bookDepth, pr \in AssetPairs, exclude \in SUBSET OfferIDs :
        bookBestOffer(s, pr[1], pr[2], exclude).res
            = firstExactly(visibleIncluded(s, pr, exclude))

\* C24: getOffersByAccountAndAsset on a scope returns exactly the offers
\* whose newest visible version is of the account and sells or buys the asset
C24_OffersOfNewestVersions ==
    \A s \in 1..bookDepth, account \in SellerIDs, asset \in BookAssets :
        bookOffersByAccountAndAsset(s, account, asset)
            = [i \in OfferIDs |->
                 IF /\ IsOffer(newestOffer(s, i))
                    /\ newestOffer(s, i).sellerID = account
                    /\ (newestOffer(s, i).selling = asset \/ newestOffer(s, i).buying = asset)
                 THEN newestOffer(s, i) ELSE NoRow]

\* the winners computed from the newest versions of the accounts visible
\* through scope s
directWinners(s, maxWinners, minVotes) ==
    LET votes == [d \in Dests |->
                    sumFrom([v \in Voters |-> votesFor(newestAccount(s, v), d)], 1)]
    IN resized(sortWinners({InflationWinner(d, votes[d]) :
                               d \in {x \in Dests : votes[x] >= minVotes}}),
               maxWinners)

\* scope s and the scopes below it have all changed a vote
allChangedVotes(s) == \A t \in 1..s : deltaDests(t) # {}

\* C25: getInflationWinners on a scope whose accounts changed votes equals
\* the winners computed from the newest visible versions of all accounts:
\* votes summed by destination over the balances that count, those of at
\* least minVotes kept, best first, cut to max
C25_WinnersOfNewestVersions ==
    \A s \in 1..voteDepth, maxWinners \in 0..MaxWinners, minVotes \in 1..MaxMinVotes :
        allChangedVotes(s) =>
            getInflationWinners(s, maxWinners, minVotes)
                = {directWinners(s, maxWinners, minVotes)}

\* C26: on a scope that changed no voting account getInflationWinners
\* completes normally and returns the parent's answer for the same arguments
C26_EmptyDeltaIsParentsAnswer ==
    \A s \in 1..voteDepth, maxWinners \in 0..MaxWinners, minVotes \in 1..MaxMinVotes :
        deltaDests(s) = {} =>
            \A r \in getInflationWinners(s, maxWinners, minVotes) :
                r # Crashed /\ r \in getInflationWinners(s - 1, maxWinners, minVotes)

\* whenever a call on a scope that changed no voting account returns, it
\* returns the parent's answer
C26_ReturnedIsParentsAnswer ==
    \A s \in 1..voteDepth, maxWinners \in 0..MaxWinners, minVotes \in 1..MaxMinVotes :
        deltaDests(s) = {} =>
            \A r \in getInflationWinners(s, maxWinners, minVotes) :
                r = Crashed \/ r \in getInflationWinners(s - 1, maxWinners, minVotes)

\* C28: create on an open scope S without a child raises an error and leaves
\* S's entries and active handles unchanged whenever a newest version of the
\* key is visible through S (from S, an ancestor or the root, with or
\* without an active handle); when none is visible, also over a tombstone,
\* it maps the key to the new entry in S and registers an active handle for
\* it, and changes no other mapping or handle of S.
C28_CreateOnlyWhenNotVisible ==
    [][\A s \in Scopes, k \in Keys :
          (/\ last'.op = "create" /\ last'.s = s /\ last'.k = k
           /\ Live(s) /\ ~mIsSealed[s] /\ mChild[s] = NULL)
          => IF IsEntry(getNewestVersion(s, k))
             THEN /\ ~last'.ok
                  /\ mEntry'[s] = mEntry[s]
                  /\ mActive'[s] = mActive[s]
             ELSE /\ last'.ok
                  /\ IsEntry(mEntry'[s][k])
                  /\ mActive'[s][k] = "entry"
                  /\ \A j \in Keys \ {k} : /\ mEntry'[s][j] = mEntry[s][j]
                                            /\ mActive'[s][j] = mActive[s][j]]_vars

\* C28 witness: a create succeeded on a key the store holds, so over a
\* tombstone of the scope or of an ancestor
C28_Witness ==
    /\ last.op = "create" /\ last.ok
    /\ IsEntry(db[last.k])
    /\ IsEntry(mEntry[last.s][last.k])
    /\ mActive[last.s][last.k] = "entry"

\* entry e as a commit of scope s hands it over: lastModifiedLedgerSeq set
\* to the header's ledgerSeq if s was opened with shouldUpdateLastModified,
\* as it is otherwise
handedOver(s, e) ==
    IF mShouldUpdateLastModified[s] THEN Entry(e.val, mHeader[s]) ELSE e

\* C29: the create/commit/load round trip, step by step. A commit of scope
\* S that returns makes every entry of S the newest version its parent (a
\* scope or the root) shows, unchanged when S was opened with
\* should_update_last_modified = false and with last_modified_ledger_seq set
\* to S's header.ledger_seq otherwise; a load that returns hands out exactly
\* the newest visible version and records it in the scope; deactivating the
\* handle changes no entry, so a second load observes identical content.
C29_RoundTrip ==
    [][\A s \in Scopes :
          /\ (last'.op = "commit" /\ last'.ok /\ last'.s = s /\ Live(s))
             => \A k \in Keys :
                   IsEntry(mEntry[s][k])
                   => getNewestVersion(mParent(s), k)' = handedOver(s, mEntry[s][k])
          /\ \A k \in Keys :
                /\ (last'.op = "load" /\ last'.ok /\ last'.s = s /\ last'.k = k)
                   => IF IsEntry(getNewestVersion(s, k))
                      THEN /\ last'.ret = "handle"
                           /\ mEntry'[s][k] = getNewestVersion(s, k)
                           /\ mActive'[s][k] = "entry"
                      ELSE /\ last'.ret = "empty"
                           /\ mEntry'[s][k] = mEntry[s][k]
                /\ (last'.op = "deactivate" /\ last'.s = s /\ last'.k = k)
                   => /\ mEntry' = mEntry
                      /\ mActive'[s][k] = "none"
                      /\ getNewestVersion(s, k)' = getNewestVersion(s, k)]_vars

\* C29 witness: a commit into the store handed over an entry stamped with
\* the ledgerSeq of the committing scope's header, which the root adopted;
\* the store and the entry cache show it to the next scope that loads it
C29_Witness ==
    /\ last.op = "commit" /\ last.ok /\ last.s = 1
    /\ \E k \in Keys :
          /\ IsEntry(last.args[k])
          /\ last.args[k].lm = mHeader[Root]
          /\ last.args[k].lm # NewEntryLm
          /\ db[k] = last.args[k]
          /\ getNewestVersion(Root, k) = db[k]

\* C30: creating and then erasing a key cancels out. When key k has no
\* newest version visible through the parent of scope S, an erase of k on S
\* leaves S without a mapping for k (no entry, no tombstone); so does the
\* commit into S of a nested scope that erased k; and a commit of S that
\* has no mapping for k changes nothing for k in its parent or the store.
C30_CreateEraseCancels ==
    [][\A s \in Scopes, k \in Keys :
          /\ (/\ last'.op = "erase" /\ last'.ok /\ last'.s = s /\ last'.k = k
              /\ ~IsEntry(getNewestVersion(mParent(s), k)))
             => mEntry'[s][k] = Absent
          /\ (/\ last'.op = "commit" /\ last'.ok /\ mParent(last'.s) = s
              /\ mEntry[last'.s][k] = None
              /\ ~IsEntry(getNewestVersion(mParent(s), k)))
             => mEntry'[s][k] = Absent
          /\ (/\ last'.op = "commit" /\ last'.ok /\ last'.s = s
              /\ mEntry[s][k] = Absent)
             => IF mParent(s) = Root
                THEN db'[k] = db[k] /\ dbTxn'[k] = db[k]
                ELSE mEntry'[mParent(s)][k] = mEntry[mParent(s)][k]]_vars

\* C30 witness: a nested scope that erased a key created in its parent has
\* committed, and the parent is left without a mapping for the key, which
\* nothing below it holds
C30_Witness ==
    /\ last.op = "commit" /\ last.ok /\ last.s = 2
    /\ Live(1)
    /\ \E k \in Keys :
          /\ last.args[k] = None
          /\ mEntry[1][k] = Absent
          /\ ~IsEntry(getNewestVersion(Root, k))

\* C31: an erase propagates through the stack. After erase(k) on a scope
\* the scope shows no entry for k; after a scope holding the erased marker
\* for k commits, its parent shows no entry for k, and when the parent is
\* the root the store row is gone and the root serves no entry for k; and a
\* scope that shows no entry for k shows one again only through a create of
\* k on it or the commit of a child that created k, the store only through
\* a commit that hands an entry over.
C31_ErasePropagates ==
    [][\A k \in Keys :
          /\ \A s \in Scopes :
                /\ (last'.op = "erase" /\ last'.ok /\ last'.s = s /\ last'.k = k)
                   => ~IsEntry(getNewestVersion(s, k)')
                /\ (last'.op = "commit" /\ last'.ok /\ last'.s = s /\ mEntry[s][k] = None)
                   => /\ ~IsEntry(getNewestVersion(mParent(s), k)')
                      /\ mParent(s) = Root => ~IsEntry(db'[k]) /\ ~IsEntry(dbTxn'[k])
                /\ (/\ Live(s) /\ life'[s] = "live"
                    /\ ~IsEntry(getNewestVersion(s, k))
                    /\ IsEntry(getNewestVersion(s, k)'))
                   => \/ last'.op = "create" /\ last'.ok /\ last'.s = s /\ last'.k = k
                      \/ /\ last'.op = "commit" /\ last'.ok /\ mParent(last'.s) = s
                         /\ IsEntry(last'.args[k])
          /\ (~IsEntry(db[k]) /\ IsEntry(db'[k]))
             => /\ last'.op = "commit" /\ last'.ok /\ mParent(last'.s) = Root
                /\ IsEntry(last'.args[k])]_vars

\* C31 witness: a scope holding the erased marker for a key committed into
\* the root, and neither the store nor the root's cache holds the key
C31_Witness ==
    /\ last.op = "commit" /\ last.ok /\ last.s = 1
    /\ \E k \in Keys :
          /\ last.args[k] = None
          /\ ~IsEntry(db[k])
          /\ ~IsEntry(getNewestVersion(Root, k))
          /\ mEntryCache[k] # Absent

\* the calls that seal the scope they are made on
SealingCalls == {"commit", "getChanges", "getDelta", "getLiveEntries", "getDeadEntries"}

\* scope s has no active entry handle and no active header handle
noHandles(s) == mActive[s] = NoHandles /\ ~mActiveHeader[s]

\* C32: every event that ends the mutable phase of scope S (its rollback or
\* that of an ancestor, its commit, its sealing by getChanges, getDelta,
\* getLiveEntries or getDeadEntries, the attaching of a child) leaves S
\* without an active entry handle and without an active header handle; and
\* a scope that is sealed, has a child or has ended has none, so no handle
\* acquired before the event reads or modifies S afterwards.
C32_HandlesEndWithMutablePhase ==
    [][\A s \in Scopes :
          /\ (/\ Live(s)
              /\ \/ last'.op \in {"rollback", "drop"} /\ last'.ok
                    /\ \E i \in 1..Len(last'.order) : last'.order[i] = s
                 \/ last'.op \in SealingCalls /\ last'.s = s
                    /\ last'.ret # "throw"
                 \/ last'.op = "commit" /\ last'.s = s /\ mChild[s] = NULL
                 \/ last'.op = "construct" /\ last'.ok /\ last'.s = s)
             => noHandles(s)'
          /\ (life'[s] # "live" \/ mIsSealed'[s] \/ mChild'[s] # NULL) => noHandles(s)']_vars

\* C32 witness: a scope that recorded entries, each through a handle, was
\* sealed by getChanges and holds no active handle
C32_Witness ==
    /\ last.op = "getChanges" /\ last.ok
    /\ mIsSealed[last.s]
    /\ mEntry[last.s] # EmptyMap
    /\ noHandles(last.s)

\* ---------------------------------------------------------------------
\* The specification of the handles: handle objects of any kinds over one
\* scope, loaded, move-assigned and dropped

InitHandles ==
    /\ HandlesInit([Handles -> HandleKinds])
    /\ PriceIdle /\ BookInit({NoOfferEntries}) /\ VotesInit({NoAccountEntries})
    /\ LedgerInit({[k \in Keys |-> None]}) /\ updArg = FALSE /\ PendingInit /\ QuorumInit
    /\ MoIdle /\ RebuildIdle /\ DeltaIdle

HandlesOnly ==
    UNCHANGED <<lsVars, peVars, qtVars, retVars, priceVars, bookVars, voteVars, moVars, rbVars,
                deltaVars>>

NextHandles ==
    \/ \E a \in Handles, k \in Registered : HandleLoad(a, k) /\ HandlesOnly
    \/ \E a \in Handles, b \in Handles : MoveAssign(a, b) /\ HandlesOnly
    \/ \E a \in Handles : HandleDrop(a) /\ HandlesOnly
    \/ HandleAddChild /\ HandlesOnly

SpecHandles == InitHandles /\ [][NextHandles]_vars

\* the object handle h can use, 0 when it is null or expired
usable(h) == lock(hImpl[h], hActive)

\* C33: move-assigning handle b into handle a (entry, const-entry or header)
\* deactivates the key a referred to and hands b's borrow to a without
\* releasing it: after the step a's old key is not active, b's key is active
\* under the same implementation object, which a now holds while b is null;
\* a load of an active key raises and changes nothing; dropping a handle
\* releases the key it can use and no other, so the key is released when a
\* is dropped and a drop of b releases nothing; a handle move-assigned to
\* itself and its key stay as they were.
C33_MoveAssignTransfersBorrow ==
    [][/\ \A a \in Handles, b \in Handles :
            (hLast'.op = "assign" /\ hLast'.a = a /\ hLast'.b = b) =>
                IF a = b THEN hImpl' = hImpl /\ hActive' = hActive
                ELSE /\ usable(a) # 0 => hActive'[keyOf(usable(a), hActive)] = 0
                     /\ usable(b) # 0 =>
                            /\ hActive'[keyOf(usable(b), hActive)] = usable(b)
                            /\ hImpl'[a] = usable(b)
                     /\ hImpl'[b] = 0
                     /\ \A k \in Registered :
                            hActive'[k] # hActive[k] => usable(a) # 0 /\ k = keyOf(usable(a), hActive)
       /\ \A a \in Handles, k \in Registered :
            (hLast'.op = "load" /\ hLast'.a = a /\ hLast'.k = k /\ hActive[k] # 0) =>
                ~hLast'.ok /\ hImpl' = hImpl /\ hActive' = hActive
       /\ \A a \in Handles :
            (hLast'.op = "drop" /\ hLast'.a = a) =>
                \A k \in Registered :
                    hActive'[k] = IF usable(a) # 0 /\ k = keyOf(usable(a), hActive)
                                  THEN 0 ELSE hActive[k]]_vars

\* handle 1 took over the borrow of handle 2 by move assignment: its key is
\* still active and handle 2 is null, and the key handle 1 held before is free
C33_Witness ==
    /\ hLast.op = "assign" /\ hLast.a = 1 /\ hLast.b = 2
    /\ usable(1) # 0 /\ hImpl[2] = 0
    /\ \E k \in Registered : hActive[k] = 0 /\ k # keyOf(usable(1), hActive)
    /\ hNext >= 2

\* a usable handle was move-assigned to itself and is still usable
C33_SelfWitness ==
    /\ hLast.op = "assign" /\ hLast.a = hLast.b
    /\ usable(hLast.a) # 0

\* C34: expand is idempotent: in every state directly after an accepted
\* expand(n, qs), the same call made again is accepted and leaves the quorum
\* map (descriptors, distances, closest validators, membership) as it is.
C34_ExpandIdempotent ==
    (qLast.op = "expand" /\ qLast.res) =>
        LET again == expand(mQuorum, qLast.id, qLast.q)
        IN again.res /\ again.map = mQuorum

\* an accepted expand that recorded the descriptor of a node below the local
\* node and inserted or merged a leaf one step further
C34_Witness ==
    /\ qLast.op = "expand" /\ qLast.res
    /\ qLast.id # mLocalNodeID
    /\ mQuorum[qLast.id].mQSet = qLast.q
    /\ \E lid \in Nodes :
          /\ mQuorum[lid].in
          /\ mQuorum[lid].mDistance = mQuorum[qLast.id].mDistance + 1
          /\ mQuorum[qLast.id].mClosestQSetValidators \subseteq mQuorum[lid].mClosestQSetValidators
          /\ mQuorum[lid].mClosestQSetValidators # {}

\* C35: whenever the root has no attached child, every mapping of the root's
\* entry cache, positive or negative, equals the row the store holds for the
\* key.
C35_EntryCacheCoherent ==
    mChild[Root] = NULL =>
        \A k \in Keys : mEntryCache[k] # Absent => mEntryCache[k] = db[k]

\* C36: erase followed by create of the same key in one scope is an update:
\* when key k has a newest version visible through the parent of s, a
\* create of k called on s directly after a successful erase of k succeeds
\* and leaves a new entry in mEntry[s][k]; getChanges then reports the pair
\* (STATE, the parent's value, which the two calls left alone; UPDATED), not
\* REMOVED or CREATED, and its assertion holds; and a successful commit of s
\* leaves every entry it hands over as its parent's newest version, in the
\* store when the parent is the root.
C36_EraseThenCreateIsUpdate ==
    [][\A s \in Scopes, k \in Keys :
          /\ (/\ last.op \in {"erase", "entry.erase"} /\ last.ok
              /\ last.s = s /\ last.k = k
              /\ last'.op = "create" /\ last'.s = s /\ last'.k = k
              /\ IsEntry(getNewestVersion(mParent(s), k)))
             => /\ last'.ok
                /\ IsEntry(mEntry'[s][k]) /\ mEntry'[s][k].lm = NewEntryLm
                /\ changeOf(s, k)' = "UPDATED"
                /\ getChangesAssertion(s)'
                /\ getNewestVersion(mParent(s), k)' = getNewestVersion(mParent(s), k)
          /\ (/\ last'.op = "commit" /\ last'.ok /\ last'.s = s
              /\ IsEntry(mEntry[s][k]))
             => /\ IsEntry(last'.args[k])
                /\ last'.args[k].val = mEntry[s][k].val
                /\ getNewestVersion(mParent(s), k)' = last'.args[k]
                /\ mParent(s) = Root => db'[k] = last'.args[k]]_vars

\* a scope holds an entry it created over a different value that is still
\* visible through its parent: the key was erased in the scope before
C36_Witness ==
    \E s \in Scopes, k \in Keys :
        /\ last.op = "create" /\ last.ok /\ last.s = s /\ last.k = k
        /\ IsEntry(mEntry[s][k])
        /\ IsEntry(getNewestVersion(mParent(s), k))
        /\ getNewestVersion(mParent(s), k).val # mEntry[s][k].val
        /\ changeOf(s, k) = "UPDATED"

\* C37: unsealHeader(f) raises and changes nothing when the scope is not
\* sealed or a header handle is active; on a sealed scope it changes the
\* header of that scope only: entries, handles on entries and the sealed
\* flag stay, and whether f returned or raised no header handle is active
\* afterwards, so that the call can be made again; a commit that succeeds
\* hands the header of the scope to its parent.
C37_UnsealHeader ==
    [][\A s \in Scopes :
          /\ (last'.op = "unsealHeader" /\ last'.s = s) =>
                IF ~mIsSealed[s] \/ mActiveHeader[s]
                THEN /\ ~last'.ok /\ last'.ret = "throw"
                     /\ UNCHANGED <<scopeVars, rootVars>>
                ELSE /\ last'.ok \/ last'.ret = "f"
                     /\ mEntry' = mEntry /\ mActive' = mActive
                     /\ mIsSealed' = mIsSealed /\ mIsSealed'[s]
                     /\ ~mActiveHeader'[s]
                     /\ \A x \in Parents \ {s} : mHeader'[x] = mHeader[x]
                     /\ UNCHANGED <<life, mChild, rootVars>>
          /\ (last'.op = "commit" /\ last'.ok /\ last'.s = s)
                => mHeader'[mParent(s)] = mHeader[s]]_vars

\* a sealed scope with changes whose header unsealHeader has edited: it
\* differs from the parent's and no header handle is active
C37_Witness ==
    \E s \in Scopes :
        /\ last.op = "unsealHeader" /\ last.ok /\ last.s = s
        /\ mIsSealed[s] /\ ~mActiveHeader[s]
        /\ mHeader[s] # mHeader[mParent(s)]
        /\ \E k \in Keys : mEntry[s][k] # Absent

\* ---------------------------------------------------------------------
\* The specification of ManageOffer: one call of doApply on any lsOuter

\* the entries lsOuter can hold when doApply is called
MoOuterEntries ==
    {o \in [MoKeys -> {Absent, Entry(MaxVal, 1)}] : o["line"] = Absent}

InitManageOffer ==
    /\ MoInit([MoKeys -> {None, Entry(1, 1)}], MoOuterEntries,
              [offerID : 0..1, amount : 0..1, native : BOOLEAN, ledgerVersion : 9..10],
              BOOLEAN, {NULL, OtherChild})
    /\ HandlesInit({[h \in Handles |-> "entry"]}) /\ RebuildIdle /\ DeltaIdle
    /\ PriceIdle /\ BookInit({NoOfferEntries}) /\ VotesInit({NoAccountEntries})
    /\ LedgerInit({[k \in Keys |-> None]}) /\ updArg = FALSE /\ PendingInit /\ QuorumInit

ManageOfferOnly ==
    UNCHANGED <<lsVars, peVars, qtVars, retVars, priceVars, bookVars, voteVars, handleVars,
                rbVars, deltaVars>>

NextManageOffer ==
    \/ MoConstruct /\ ManageOfferOnly
    \/ MoCheckOfferValid /\ ManageOfferOnly
    \/ \E valid \in BOOLEAN : MoCheckOfferValidReturns(valid) /\ ManageOfferOnly
    \/ MoOldOrNewOffer /\ ManageOfferOnly
    \/ MoComputeOfferExchangeParameters /\ ManageOfferOnly
    \/ \E ok \in BOOLEAN : MoComputeReturns(ok) /\ ManageOfferOnly
    \/ \E crossed \in BOOLEAN, crossSelf \in BOOLEAN :
          MoConvertWithOffers(crossed, crossSelf) /\ ManageOfferOnly
    \/ \E left \in BOOLEAN, lowReserve \in BOOLEAN :
          MoLeaveOffer(left, lowReserve) /\ ManageOfferOnly
    \/ MoCommit /\ ManageOfferOnly
    \/ MoReturnFalse /\ ManageOfferOnly
    \/ MoThrows /\ ManageOfferOnly
    \/ MoUnwind /\ ManageOfferOnly

SpecManageOffer == InitManageOffer /\ [][NextManageOffer]_vars

\* C38: doApply is atomic with respect to lsOuter. Until doApply has
\* returned, and when it has returned false or raised, the entries and the
\* header of lsOuter are what they were when it was called, nothing was
\* committed into lsOuter and lsOuter has the child it had before (none when
\* it accepted the ls of doApply); when it has returned true there was
\* exactly one commit into lsOuter, which handed over every entry and the
\* header of ls; after the return no scope of doApply is alive; and when the
\* ls of a helper ends while doApply goes on, the entries and the header of
\* the ls of doApply are what they were before.
C38_ManageOfferAtomic ==
    [][/\ moResult' \in {"-", "false", "raised"} =>
             /\ moEntry'[OuterScope] = moBefore.entries
             /\ moHeader'[OuterScope] = moBefore.header
             /\ moCommits' = 0
       /\ moResult' \in {"false", "raised"} => moChild'[OuterScope] = moBefore.child
       /\ moResult' = "true" =>
             /\ moCommits' = 1
             /\ moChild'[OuterScope] = NULL
       /\ moResult' # "-" =>
             moLife'[OpScope] # "live" /\ moLife'[HelperScope] # "live"
       /\ (moResult = "-" /\ moResult' = "true") =>
             /\ moHeader'[OuterScope] = moHeader[OpScope]
             /\ \A k \in MoKeys :
                   IF moEntry[OpScope][k] = Absent
                   THEN moEntry'[OuterScope][k] = moBefore.entries[k]
                   ELSE IF IsEntry(moEntry[OpScope][k])
                   THEN /\ IsEntry(moEntry'[OuterScope][k])
                        /\ moEntry'[OuterScope][k].val = moEntry[OpScope][k].val
                   ELSE ~IsEntry(moEntry'[OuterScope][k])
       /\ (moLife[HelperScope] = "live" /\ moLife'[HelperScope] # "live"
             /\ moLife'[OpScope] = "live") =>
             /\ moEntry'[OpScope] = moEntry[OpScope]
             /\ moHeader'[OpScope] = moHeader[OpScope]
             /\ moChild'[OpScope] = NULL]_vars

\* doApply returned true after a helper had raised the sub-entry count of the
\* source account in its own scope: lsOuter has the new offer, the account
\* and the header as ls left them
C38_Witness ==
    /\ moResult = "true" /\ moNew /\ moArgs.amount > 0
    /\ IsEntry(moEntry[OuterScope]["offer"])
    /\ ~IsEntry(moBefore.entries["offer"])
    /\ moEntry[OuterScope]["account"] # moBefore.entries["account"]
    /\ moHeader[OuterScope] # moBefore.header

\* doApply returned false after it had erased the old offer and crossed
\* offers in its scope
C38_WitnessFalse ==
    /\ moResult = "false" /\ ~moNew /\ moArgs.offerID # 0 /\ moArgs.amount > 0
    /\ moEntry[OuterScope] = moBefore.entries

\* doApply raised
C38_WitnessRaised ==
    /\ moResult = "raised" /\ moBefore.child = NULL /\ moLife[OpScope] = "ended"

\* ---------------------------------------------------------------------
\* The specification of rebuild: one call with any lookup, its loop taking a
\* step whenever it can (the call runs on one thread, without waiting)

InitRebuild ==
    /\ RebuildInit(Lookups)
    /\ QuorumInit /\ PendingInit
    /\ LedgerInit({[k \in Keys |-> None]}) /\ updArg = FALSE
    /\ PriceIdle /\ BookInit({NoOfferEntries}) /\ VotesInit({NoAccountEntries})
    /\ HandlesInit({[h \in Handles |-> "entry"]}) /\ MoIdle /\ DeltaIdle

RebuildOnly ==
    UNCHANGED <<lsVars, peVars, retVars, priceVars, bookVars, voteVars, handleVars, moVars,
                deltaVars>>

NextRebuild ==
    \/ RebuildStart /\ RebuildOnly
    \/ RebuildVisit /\ RebuildOnly
    \/ RebuildReturns /\ RebuildOnly

SpecRebuild == InitRebuild /\ [][NextRebuild]_vars /\ WF_vars(NextRebuild)

\* C39: rebuild terminates for every lookup over the nodes, cycles and nodes
\* listed by several descriptors included: expand is called at most once for
\* a node, and the loop eventually finds the backlog empty and returns.
C39_RebuildTerminates ==
    /\ [](\A n \in Nodes : rbExpands[n] <= 1)
    /\ <>(rbPc = "done")

\* rebuild returned for a lookup with a cycle (C lists itself and D, D lists
\* A and B, which list C), every node expanded once
C39_Witness ==
    /\ rbPc = "done"
    /\ rbLookup["C"] = "qCD" /\ rbLookup["D"] = "qAB" /\ rbLookup["A"] = "qC"
    /\ \A n \in {"L", "A", "B", "C", "D"} : mQuorum[n].in
    /\ rbExpands["C"] = 1 /\ rbExpands["D"] = 1 /\ rbExpands["A"] = 1

\* ---------------------------------------------------------------------
\* The specification of the LedgerDelta iteration: a delta of any sizes is
\* iterated from begin() to end()

InitDelta ==
    /\ DeltaInit([mNew : 0..MaxDeltaSize, mMod : 0..MaxDeltaSize, mDelete : 0..MaxDeltaSize])
    /\ QuorumInit /\ PendingInit
    /\ LedgerInit({[k \in Keys |-> None]}) /\ updArg = FALSE
    /\ PriceIdle /\ BookInit({NoOfferEntries}) /\ VotesInit({NoAccountEntries})
    /\ HandlesInit({[h \in Handles |-> "entry"]}) /\ MoIdle /\ RebuildIdle

DeltaOnly ==
    UNCHANGED <<lsVars, peVars, qtVars, retVars, priceVars, bookVars, voteVars, handleVars,
                moVars, rbVars>>

NextDelta ==
    \/ DeltaBegin /\ DeltaOnly
    \/ DeltaDereference /\ DeltaOnly
    \/ DeltaIncrement /\ DeltaOnly

SpecDelta == InitDelta /\ [][NextDelta]_vars

\* the items of a delta in the order of the claim
inOrder(sz) ==
    [i \in 1..sz.mNew |-> Item("LIVEENTRY", "new", i)]
        \o [i \in 1..sz.mMod |-> Item("LIVEENTRY", "mod", i)]
        \o [i \in 1..sz.mDelete |-> Item("DEADENTRY", "del", i)]

\* C40: the iteration from begin() to end() does not stop before end(), and
\* when it has reached end() it has yielded every new entry, then every
\* modified entry, as live entries, then every deleted key, as dead entries,
\* each once: size() items.
C40_IterationYieldsAll ==
    /\ itPc # "crashed"
    /\ itPc = "done" => itYield = inOrder(ldSize) /\ Len(itYield) = size(ldSize)

\* with no modified and no deleted entry the iteration yields the new ones
C40_NewOnly ==
    (ldSize.mNew > 0 /\ ldSize.mMod = 0 /\ ldSize.mDelete = 0) => C40_IterationYieldsAll

====
